---- MODULE Spec2Model ----
(***************************************************************************)
(* Model of the municipal ethics-code scraper: the batch run of            *)
(* MunicipalCodeScraper (main.py), the dispatch of ParserFactory           *)
(* (parser_factory.py), the platform strategy modules, and the             *)
(* line classifier PDFGenerator.format_section_content (pdf_generator.py). *)
(*                                                                         *)
(* Text is a sequence of characters; a character is a one-token string.    *)
(* "SECT" stands for the section sign, "NL" for a line feed and "CR" for   *)
(* a carriage return.                                                      *)
(***************************************************************************)
EXTENDS Integers, Sequences, FiniteSets, TLC

VARIABLES
    \* ---- batch run (main.py, parser_factory.py, the parser modules) ----
    links,      \* the target list of the run (read-only input)
    env,        \* the installation: the script run, is the lxml tree builder available?
    i,          \* 1-based index of the target being processed, 0 before the loop
    pc,         \* position of the single thread of control
    ret,        \* raw value returned (or exception raised) by the strategy, and why
    result,     \* (success, sections) delivered by ParserFactory.scrape_city
    tracker,    \* the counters of the run: ProgressTracker, or Ecode360Scraper.results
    processed,  \* indices of the targets whose process_city call has returned
    sess,       \* the browser session: playwright driver, browser, owner target
    gcBrowser,  \* GeneralCodeParser.self.browser: target that opened it, 0 = None
    net,        \* network log: number of fetch actions, delay since the last
    intr,       \* operator interrupt: raised?, position it hit, swallowed?
    loc,        \* locals of the running strategy
    \* ---- line classifier (pdf_generator.py) ----
    fRaw,       \* the raw text handed to format_section_content
    fLines,     \* lines after normalisation, escaping, splitting and stripping
    fi,         \* 1-based index of the current line (python i + 1)
    fOut,       \* the emitted blocks
    fpc,        \* "start", "loop" or "done"
    \* ---- term matchers (config.py and the parser modules) ----
    mText,      \* the text handed to the matchers
    mRes,       \* the answer of every matcher for mText
    mBase,      \* the answers for the text as first given
    mEdits,     \* 1 once the text is a variant (case, outer whitespace) of the one given
    mpc,        \* "start" or "matched"
    \* ---- link cache (main.py, main_360.py, byu_collector.py, ecode360_collector.py) ----
    cFile,      \* the cache file: does it exist, and the text stored in it
    cStored,    \* the list the text of the cache file was written from
    cLinks,     \* the list the loader hands to the run
    cCalls,     \* number of times the collector has been invoked
    cForce,     \* force_recollect of the current call
    cRun,       \* number of the current run
    cpc,        \* "load" or "loaded"
    \* ---- find_ethics_sections for Municipal Code Online (municode_parser.py) ----
    heading,         \* the heading div of the current turn of the loop
    outcome,         \* what the loop did with it: "no_link", "chapter_level", "no_match", "kept"
    walked,          \* the siblings of the heading's parent visited so far
    content_parts,   \* the texts collected for the current heading
    ethics_sections, \* the section records collected so far
    nHead,           \* number of headings visited
    hpc,             \* "enter", "heading", "walk" or "done"
    \* ---- tree-item walk of fetch_with_playwright (municode_parser.py) ----
    tree_items,      \* the tree items located on the page
    all_chapters,    \* the chapter candidates collected so far
    tk,              \* 1-based index of the next tree item
    tpc,             \* "walk" or "done"
    \* ---- first pass of GeneralCodeParser.scrape_city (generalcode_parser.py) ----
    potential_chapters, \* the candidate chapters in the order they will be checked
    gFound,          \* number of chapters found on the homepage, 0 before the cut
    gpc,             \* "links", "checking" or "idle"
    \* ---- Ecode360Parser._scrape_section (ecode360_parser.py) ----
    main_content,    \* the content container of the loaded page: found or None, and its nodes
    content_elements,\* the elements collected so far
    section_data,    \* what the call returns: Unset, None or the record
    spc,             \* "goto", "classed", "headings", "paragraphs", "fulltext", "return", "done"
    \* ---- retry_on_failure (utils.py) ----
    max_retries,     \* the decorator's max_retries
    delay,           \* the decorator's delay
    attempt,         \* the loop variable of the wrapper
    invoked,         \* the outcomes of the invocations of func so far
    waits,           \* the sleeps so far, each with the number of invocations before it
    last_exception,  \* the wrapper's last_exception
    rOut,            \* how the wrapper ended: Unset, a returned value or a raised exception
    rpc              \* "call", "except", "raise", "done" or "idle"

runVars == <<links, env, i, pc, ret, result, tracker, processed, sess, gcBrowser, net, intr, loc>>
fmtVars == <<fRaw, fLines, fi, fOut, fpc>>
matchVars == <<mText, mRes, mBase, mEdits, mpc>>
cacheVars == <<cFile, cStored, cLinks, cCalls, cForce, cRun, cpc>>
findVars == <<heading, outcome, walked, content_parts, ethics_sections, nHead, hpc>>
treeVars == <<tree_items, all_chapters, tk, tpc>>
passVars == <<potential_chapters, gFound, gpc>>
scrapeVars == <<main_content, content_elements, section_data, spc>>
retryVars == <<max_retries, delay, attempt, invoked, waits, last_exception, rOut, rpc>>
pureVars == <<matchVars, cacheVars, findVars, treeVars, passVars, scrapeVars, retryVars>>
exceptMatch == <<runVars, fmtVars, cacheVars, findVars, treeVars, passVars, scrapeVars, retryVars>>
exceptCache == <<runVars, fmtVars, matchVars, findVars, treeVars, passVars, scrapeVars, retryVars>>
exceptFind == <<runVars, fmtVars, matchVars, cacheVars, treeVars, passVars, scrapeVars, retryVars>>
exceptTree == <<runVars, fmtVars, matchVars, cacheVars, findVars, passVars, scrapeVars, retryVars>>
exceptPass == <<runVars, fmtVars, matchVars, cacheVars, findVars, treeVars, scrapeVars, retryVars>>
exceptScrape == <<runVars, fmtVars, matchVars, cacheVars, findVars, treeVars, passVars, retryVars>>
exceptRetry == <<runVars, fmtVars, matchVars, cacheVars, findVars, treeVars, passVars, scrapeVars>>
vars == <<links, env, i, pc, ret, result, tracker, processed, sess, gcBrowser, net, intr, loc,
          fRaw, fLines, fi, fOut, fpc, mText, mRes, mBase, mEdits, mpc,
          cFile, cStored, cLinks, cCalls, cForce, cRun, cpc,
          heading, outcome, walked, content_parts, ethics_sections, nHead, hpc,
          tree_items, all_chapters, tk, tpc, potential_chapters, gFound, gpc,
          main_content, content_elements, section_data, spc,
          max_retries, delay, attempt, invoked, waits, last_exception, rOut, rpc>>

(***************************************************************************)
(* Bounds of the model.                                                    *)
(***************************************************************************)
MaxLines == 3
MaxTargets == 2
MaxChapters == 2
MaxSecLinks == 1
MaxSections == 2

(***************************************************************************)
(* Characters and text helpers.                                            *)
(***************************************************************************)
IsUpper(c) == c \in {"A", "B", "C", "I", "X"}
IsDigit(c) == c \in {"1", "2", "5"}
IsSpace(c) == c \in {" ", "NL", "CR"}

RECURSIVE LStrip(_)
LStrip(s) == IF s # <<>> /\ IsSpace(Head(s)) THEN LStrip(Tail(s)) ELSE s

RECURSIVE RStrip(_)
RStrip(s) == IF s # <<>> /\ IsSpace(s[Len(s)]) THEN RStrip(SubSeq(s, 1, Len(s) - 1)) ELSE s

\* str.strip()
Strip(s) == RStrip(LStrip(s))

\* raw.replace(CR NL, NL).replace(CR, NL)
RECURSIVE NormalizeNewlines(_)
NormalizeNewlines(s) ==
    IF s = <<>> THEN <<>>
    ELSE IF Head(s) = "CR"
         THEN IF Len(s) >= 2 /\ s[2] = "NL"
              THEN <<"NL">> \o NormalizeNewlines(SubSeq(s, 3, Len(s)))
              ELSE <<"NL">> \o NormalizeNewlines(Tail(s))
         ELSE <<Head(s)>> \o NormalizeNewlines(Tail(s))

\* html.escape(text): & < > " ' become entities
EscapeChar(c) ==
    CASE c = "&" -> <<"&", "a", "m", "p", ";">>
      [] c = "<" -> <<"&", "l", "t", ";">>
      [] c = ">" -> <<"&", "g", "t", ";">>
      [] c = "\"" -> <<"&", "q", "u", "o", "t", ";">>
      [] c = "'" -> <<"&", "#", "x", "2", "7", ";">>
      [] OTHER -> <<c>>

RECURSIVE HtmlEscape(_)
HtmlEscape(s) == IF s = <<>> THEN <<>> ELSE EscapeChar(Head(s)) \o HtmlEscape(Tail(s))

\* text.split(NL): always at least one piece
RECURSIVE SplitNL(_, _)
SplitNL(s, cur) ==
    IF s = <<>> THEN <<cur>>
    ELSE IF Head(s) = "NL" THEN <<cur>> \o SplitNL(Tail(s), <<>>)
    ELSE SplitNL(Tail(s), Append(cur, Head(s)))

RECURSIVE MapStrip(_)
MapStrip(ls) == IF ls = <<>> THEN <<>> ELSE <<Strip(Head(ls))>> \o MapStrip(Tail(ls))

\* " ".join(parts)
RECURSIVE JoinSp(_)
JoinSp(parts) ==
    IF parts = <<>> THEN <<>>
    ELSE IF Len(parts) = 1 THEN Head(parts)
    ELSE Head(parts) \o <<" ">> \o JoinSp(Tail(parts))

\* lines = [ln.strip() for ln in html.escape(normalised raw.strip()).split(NL)]
PrepareLines(raw) == MapStrip(SplitNL(HtmlEscape(Strip(NormalizeNewlines(raw))), <<>>))

(***************************************************************************)
(* The three line predicates of format_section_content.                    *)
(***************************************************************************)
\* a term test that lets any character of the class come first
is_caps_term_any_first(s) ==
    /\ Len(s) >= 3
    /\ \A k \in 1..Len(s) : IsUpper(s[k]) \/ IsDigit(s[k]) \/ s[k] = " " \/ s[k] = "-"

\* fullmatch of: one upper-case letter, then two or more of upper-case, digit, space, hyphen
is_caps_term(s) ==
    /\ Len(s) >= 3
    /\ IsUpper(s[1])
    /\ \A k \in 2..Len(s) : IsUpper(s[k]) \/ IsDigit(s[k]) \/ s[k] = " " \/ s[k] = "-"

\* a marker test that puts no limit on the number of digits
is_marker_many_digits(s) ==
    LET n == Len(s)
        body == SubSeq(s, 1, n - 1)
        m == Len(body)
        d == Cardinality({k \in 1..m : \A j \in 1..k : IsDigit(body[j])})
    IN IF /\ n >= 2 /\ s[n] = "."
          /\ \/ m = 1 /\ IsUpper(body[1])
             \/ d >= 1 /\ (m = d \/ (m = d + 1 /\ IsUpper(body[m])))
       THEN body ELSE <<>>

\* fullmatch of: (one upper-case letter | 1-3 digits and an optional upper-case letter),
\* then a period; the value is the marker found (group 1), or <<>> for None
is_marker(s) ==
    LET n == Len(s)
        body == SubSeq(s, 1, n - 1)
        m == Len(body)
        letter == m = 1 /\ IsUpper(body[1])
        digits == /\ m >= 1 /\ m <= 3
                  /\ \A k \in 1..m : IsDigit(body[k])
        digitsLetter == /\ m >= 2 /\ m <= 4
                        /\ \A k \in 1..(m - 1) : IsDigit(body[k])
                        /\ IsUpper(body[m])
    IN IF n >= 2 /\ s[n] = "." /\ (letter \/ digits \/ digitsLetter) THEN body ELSE <<>>

\* match at the start of: section sign, optional whitespace, a digit
RECURSIVE SkipSpaces(_)
SkipSpaces(s) == IF s # <<>> /\ IsSpace(Head(s)) THEN SkipSpaces(Tail(s)) ELSE s

is_section_symbol(s) ==
    /\ s # <<>>
    /\ Head(s) = "SECT"
    /\ LET r == SkipSpaces(Tail(s)) IN r # <<>> /\ IsDigit(Head(r))

\* the stop test of both inner while loops (lines 85 and 103)
StopsBody(nxt) ==
    nxt = <<>> \/ is_caps_term(nxt) \/ is_section_symbol(nxt) \/ is_marker(nxt) # <<>>

\* an inner loop that runs on to the next blank line, whatever lies between
RECURSIVE TakeBodyUntilBlank(_, _)
TakeBodyUntilBlank(ls, k) ==
    IF k > Len(ls) \/ ls[k] = <<>> THEN <<>>
    ELSE <<ls[k]>> \o TakeBodyUntilBlank(ls, k + 1)

\* the inner while loop: the lines from index k on, up to the first stopping line
RECURSIVE TakeBody(_, _)
TakeBody(ls, k) ==
    IF k > Len(ls) \/ StopsBody(ls[k]) THEN <<>>
    ELSE <<ls[k]>> \o TakeBody(ls, k + 1)

(***************************************************************************)
(* The blocks format_section_content appends to out.  A block keeps its    *)
(* kind (the css class of the emitted element) and the texts placed in it. *)
(***************************************************************************)
\* line 74: the fused section symbol and title
HeadingBlock(sec, title) == <<[type |-> "sec-head", parts |-> <<sec, title>>]>>

\* a definition block that puts the term and its text in two separate elements
DefBlocksSplit(term, defs) ==
    <<[type |-> "def", parts |-> <<term>>], [type |-> "def-text", parts |-> <<JoinSp(defs)>>]>>

\* lines 89-93: the definition block, with or without a definition text
DefBlocks(term, defs) ==
    LET definition == Strip(JoinSp(defs))
    IN IF definition # <<>>
       THEN <<[type |-> "def", parts |-> <<term, definition>>]>>
       ELSE <<[type |-> "def", parts |-> <<term>>]>>

\* a list item that keeps only the first body line
LiBlockFirstLine(mark, parts) ==
    <<[type |-> "li", parts |-> <<Append(mark, ".")>> \o
                                 (IF parts = <<>> THEN <<>> ELSE <<Head(parts)>>)]>>

\* lines 107-108: the list item, marker re-punctuated, body joined
LiBlock(mark, parts) ==
    LET body == Strip(JoinSp(parts))
    IN <<[type |-> "li", parts |-> <<Append(mark, ".")>> \o
                                    (IF body = <<>> THEN <<>> ELSE <<body>>)]>>

\* lines 112-115: the default paragraph (inline section references are only decorated)
ParaBlock(ln) == <<[type |-> "p", parts |-> <<ln>>]>>

(***************************************************************************)
(* format_section_content as a state machine over (i, out).                *)
(***************************************************************************)
\* the lines a raw text is assembled from
LineSet ==
    { <<>>,
      <<" ">>,
      <<"SECT", " ", "5">>,
      <<"A", ".">>,
      <<"1", "2", "B", ".">>,
      <<"A", "B", " ", "C">>,
      <<"a", "b", ".">>,
      <<" ", "a", " ">>,
      <<"a", "<", "b">>,
      <<"s", " ", "SECT", "5">> }

Separators == { <<"NL">>, <<"CR", "NL">>, <<"CR">> }

RECURSIVE JoinWith(_, _)
JoinWith(ls, sep) ==
    IF ls = <<>> THEN <<>>
    ELSE IF Len(ls) = 1 THEN Head(ls)
    ELSE Head(ls) \o sep \o JoinWith(Tail(ls), sep)

SeqsUpTo(S, n) == UNION { [1..k -> S] : k \in 0..n }

RawTexts == { JoinWith(ls, sep) : ls \in SeqsUpTo(LineSet, MaxLines), sep \in Separators }

\* further lines that look like a term or a marker and are neither, or are one
\* of the shorter and longer forms of a marker
NearLines ==
    { <<"1", "2", "A">>,
      <<"-", "A", "B">>,
      <<"A", "B">>,
      <<"A", "-", "1">>,
      <<"1", ".">>,
      <<"1", "2", "5", ".">>,
      <<"A", "A", ".">>,
      <<"1", "2", "5", "1", ".">>,
      <<"1", "A", "B", ".">>,
      <<"(", "a", ")">>,
      <<"A", ".", " ", "a">> }

MaxNearLines == 2

NearTexts == { JoinWith(ls, <<"NL">>) : ls \in SeqsUpTo(LineSet \cup NearLines, MaxNearLines) }

CurLine == fLines[fi]

\* a fusion test that does not ask the next line to be non-blank
FusesWithNextPresent ==
    /\ is_section_symbol(CurLine)
    /\ fi + 1 <= Len(fLines)
    /\ ~is_section_symbol(fLines[fi + 1])

\* line 71: the fusion test
FusesWithNext ==
    /\ is_section_symbol(CurLine)
    /\ fi + 1 <= Len(fLines)
    /\ fLines[fi + 1] # <<>>
    /\ ~is_section_symbol(fLines[fi + 1])

\* lines 37-49: empty input returns at once, otherwise the lines are prepared
FmtStart ==
    /\ fpc = "start"
    /\ IF fRaw = <<>>
       THEN /\ fpc' = "done"
            /\ UNCHANGED <<fLines, fi>>
       ELSE /\ fLines' = PrepareLines(fRaw)
            /\ fi' = 1
            /\ fpc' = "loop"
    /\ fOut' = <<>>
    /\ UNCHANGED <<fRaw>>
    /\ UNCHANGED <<runVars, pureVars>>

\* lines 66-68: a blank line is skipped
FmtBlank ==
    /\ fpc = "loop" /\ fi <= Len(fLines)
    /\ CurLine = <<>>
    /\ fi' = fi + 1
    /\ UNCHANGED <<fRaw, fLines, fOut, fpc>>
    /\ UNCHANGED <<runVars, pureVars>>

\* lines 71-76: section symbol fused with the title line that follows
FmtHeading ==
    /\ fpc = "loop" /\ fi <= Len(fLines)
    /\ CurLine # <<>>
    /\ FusesWithNext
    /\ fOut' = fOut \o HeadingBlock(CurLine, fLines[fi + 1])
    /\ fi' = fi + 2
    /\ UNCHANGED <<fRaw, fLines, fpc>>
    /\ UNCHANGED <<runVars, pureVars>>

\* lines 79-94: an all-caps term and the lines that define it
FmtDefTerm ==
    /\ fpc = "loop" /\ fi <= Len(fLines)
    /\ CurLine # <<>>
    /\ ~FusesWithNext
    /\ is_caps_term(CurLine)
    /\ LET defs == TakeBody(fLines, fi + 1)
       IN /\ fOut' = fOut \o DefBlocks(CurLine, defs)
          /\ fi' = fi + 1 + Len(defs)
    /\ UNCHANGED <<fRaw, fLines, fpc>>
    /\ UNCHANGED <<runVars, pureVars>>

\* lines 97-109: a marker line and the lines of its body
FmtMarker ==
    /\ fpc = "loop" /\ fi <= Len(fLines)
    /\ CurLine # <<>>
    /\ ~FusesWithNext
    /\ ~is_caps_term(CurLine)
    /\ is_marker(CurLine) # <<>>
    /\ LET parts == TakeBody(fLines, fi + 1)
       IN /\ fOut' = fOut \o LiBlock(is_marker(CurLine), parts)
          /\ fi' = fi + 1 + Len(parts)
    /\ UNCHANGED <<fRaw, fLines, fpc>>
    /\ UNCHANGED <<runVars, pureVars>>

\* lines 112-116: the default paragraph
FmtParagraph ==
    /\ fpc = "loop" /\ fi <= Len(fLines)
    /\ CurLine # <<>>
    /\ ~FusesWithNext
    /\ ~is_caps_term(CurLine)
    /\ is_marker(CurLine) = <<>>
    /\ fOut' = fOut \o ParaBlock(CurLine)
    /\ fi' = fi + 1
    /\ UNCHANGED <<fRaw, fLines, fpc>>
    /\ UNCHANGED <<runVars, pureVars>>

\* lines 64 and 118: the loop ends when i reaches len(lines)
FmtReturn ==
    /\ fpc = "loop" /\ fi > Len(fLines)
    /\ fpc' = "done"
    /\ UNCHANGED <<fRaw, fLines, fi, fOut>>
    /\ UNCHANGED <<runVars, pureVars>>

NextFmt ==
    \/ FmtStart
    \/ FmtBlank
    \/ FmtHeading
    \/ FmtDefTerm
    \/ FmtMarker
    \/ FmtParagraph
    \/ FmtReturn

(***************************************************************************)
(* The batch run: targets, the registry and the results of a strategy.     *)
(***************************************************************************)
\* a key that is absent from a target record (dict.get gives None or its default)
Missing == "<missing>"

\* parser_factory.py lines 16-24: the registered platform names
Registry ==
    { "Municipal Code Online", "Municode", "General Code", "Amlegal",
      "CivicLinQ", "Code Publishing", "EncodePlus" }

DetectionOnly == { "Amlegal", "CivicLinQ", "Code Publishing", "EncodePlus" }

Target(p, u, c) == [platform |-> p, url |-> u, city |-> c]

\* the target records of a links file: well-formed ones for every platform, an
\* unregistered platform, a record without platform key, and records without
\* city or url or with an empty url ("main" is a table-of-contents url,
\* "anchor" a direct url that carries #name=)
TargetKinds ==
    { Target(p, "main", "city") : p \in Registry }
    \cup { Target("UnknownPlatform", "main", "city"),
           Target(Missing, "main", "city"),
           Target("Municode", "main", Missing),
           Target("Municipal Code Online", "", "city"),
           Target("Municipal Code Online", "anchor", "city"),
           Target("Amlegal", Missing, "city") }

\* config.py line 11, in milliseconds
REQUEST_DELAY == 2500

\* the value python's None where a string is expected
None == "None"

\* a sections value: python's None, or a list of section records
PyNone == [isNone |-> TRUE, items |-> <<>>]
PyList(items) == [isNone |-> FALSE, items |-> items]

NoRet == [val |-> [kind |-> "unset"], why |-> "none"]
NoResult == [success |-> FALSE, sections |-> PyNone]
NoLoc == [k |-> 0]
ClosedSession == [pw |-> FALSE, browser |-> FALSE]

\* leaving the block of "with sync_playwright() as p" without releasing anything
WithExitKeepsBrowser(s) == [s EXCEPT !.pw = FALSE]

\* leaving the block of "with sync_playwright() as p": the driver stops and
\* the browser it launched goes with it
WithExit(s) == [pw |-> FALSE, browser |-> FALSE]

\* utils.py lines 54-70: re.search on a url that is None raises TypeError
extract_state_from_url(url) ==
    IF url = Missing THEN [raises |-> TRUE] ELSE [raises |-> FALSE]

\* parser_factory.py lines 26-31: the parser for a platform, or ValueError
get_parser(platform) ==
    IF platform \in Registry THEN [raises |-> FALSE, parser |-> platform]
    ELSE [raises |-> TRUE, parser |-> None]

\* an except clause that treats ValueError like every other exception
FactoryCatchAllFail(exc) == [success |-> FALSE, sections |-> PyList(<<>>)]

\* parser_factory.py lines 58-63: the two except clauses of scrape_city
FactoryCatch(exc) ==
    IF exc = "ValueError" THEN [success |-> TRUE, sections |-> PyList(<<>>)]
    ELSE [success |-> FALSE, sections |-> PyList(<<>>)]

\* parser_factory.py lines 44-56: the value scrape_city makes of a strategy's return
FactoryNormalize(r) ==
    CASE r.kind = "tuple" -> [success |-> r.success, sections |-> r.sections]
      [] r.kind = "dict" -> [success |-> TRUE, sections |-> PyList(r.sections)]
      [] r.kind = "none" -> [success |-> TRUE, sections |-> PyList(<<>>)]
      [] r.kind = "raise" -> FactoryCatch(r.exc)

RetTuple(ok, secs) == [kind |-> "tuple", success |-> ok, sections |-> secs]
RetDict(secs, review) == [kind |-> "dict", sections |-> secs, review |-> review]
RetNone == [kind |-> "none"]
RetRaise(exc) == [kind |-> "raise", exc |-> exc]

\* utils.py lines 96-107: ProgressTracker.update
update(t, success, has_ethics) ==
    [t EXCEPT !.completed = @ + 1,
              !.successful = IF success THEN @ + 1 ELSE @,
              !.with_ethics = IF success /\ has_ethics THEN @ + 1 ELSE @,
              !.without_ethics = IF success /\ ~has_ethics THEN @ + 1 ELSE @,
              !.failed = IF success THEN @ ELSE @ + 1]

cur == links[i]

\* the variables of the run that a step inside a strategy leaves alone
Frame == UNCHANGED <<links, env, i, result, tracker, processed, intr>> /\ UNCHANGED <<fmtVars, pureVars>>

\* a fetch action followed by an explicit wait of w milliseconds
Fetched(w) == [fetched |-> TRUE, waited |-> w]

\* the strategy returns (or raises) r to ParserFactory.scrape_city; why records
\* what ended it: "launch_failed", "fetch_failed", "parse_failed", "bad_target",
\* "no_match" or "found"
Returns(r, why) == ret' = [val |-> r, why |-> why] /\ pc' = "factory_ret" /\ loc' = NoLoc

(***************************************************************************)
(* MunicipalCodeScraper.run and process_city, ParserFactory.scrape_city.   *)
(***************************************************************************)
\* main.py lines 90-104: the link list is loaded; an empty list ends the run
RunStart ==
    /\ pc = "run"
    /\ pc' = IF links = <<>> THEN "done" ELSE "loop"
    /\ tracker' = [tracker EXCEPT !.total = Len(links)]
    /\ UNCHANGED <<links, env, i, ret, result, processed, sess, gcBrowser, net, intr, loc>>
    /\ UNCHANGED <<fmtVars, pureVars>>

\* main.py lines 106-108: the for loop takes the next target
LoopNext ==
    /\ pc = "loop"
    /\ i < Len(links)
    /\ i' = i + 1
    /\ pc' = "process_city"
    /\ result' = NoResult
    /\ ret' = NoRet
    /\ UNCHANGED <<links, env, tracker, processed, sess, gcBrowser, net, intr, loc>>
    /\ UNCHANGED <<fmtVars, pureVars>>

\* main.py lines 114-130: the loop is exhausted and the summary is printed
RunFinish ==
    /\ pc = "loop"
    /\ i = Len(links)
    /\ pc' = "done"
    /\ UNCHANGED <<links, env, i, ret, result, tracker, processed, sess, gcBrowser, net, intr, loc>>
    /\ UNCHANGED <<fmtVars, pureVars>>

\* main.py lines 35-44 and 146-156: the state is extracted from the url before
\* the try block; its TypeError leaves process_city and run and ends main
ProcessCity ==
    /\ pc = "process_city"
    /\ pc' = IF extract_state_from_url(cur.url).raises THEN "fatal" ELSE "factory"
    /\ UNCHANGED <<links, env, i, ret, result, tracker, processed, sess, gcBrowser, net, intr, loc>>
    /\ UNCHANGED <<fmtVars, pureVars>>

\* parser_factory.py lines 38-42 and 58-60: the parser is looked up; for an
\* unregistered platform get_parser raises and scrape_city returns at once
FactoryDispatch ==
    /\ pc = "factory"
    /\ LET g == get_parser(cur.platform)
       IN IF g.raises
          THEN /\ result' = FactoryCatch("ValueError")
               /\ pc' = "pc_result"
          ELSE /\ result' = result
               /\ pc' = CASE g.parser \in DetectionOnly -> "det_open"
                          [] g.parser = "Municode" -> "ml_enter"
                          [] g.parser = "Municipal Code Online" -> "mco_enter"
                          [] g.parser = "General Code" -> "gc_open"
    /\ UNCHANGED <<links, env, i, ret, tracker, processed, sess, gcBrowser, net, intr, loc>>
    /\ UNCHANGED <<fmtVars, pureVars>>

\* parser_factory.py lines 42-63: the strategy has returned or raised
FactoryReturn ==
    /\ pc = "factory_ret"
    /\ result' = FactoryNormalize(ret.val)
    /\ pc' = "pc_result"
    /\ UNCHANGED <<links, env, i, ret, tracker, processed, sess, gcBrowser, net, intr, loc>>
    /\ UNCHANGED <<fmtVars, pureVars>>

\* every target with sections counted as one with ethics code, whatever
\* became of its PDF
CountPdfAsEthics(t, pdf_path) == update(t, TRUE, TRUE)

\* main.py lines 62-67: a target with sections is counted by what
\* generate_pdf returned, a path or None
CountPdf(t, pdf_path) ==
    IF pdf_path # None THEN update(t, TRUE, TRUE) ELSE update(t, FALSE, FALSE)

\* main.py lines 50-72: the result is counted; a PDF is generated for a
\* non-empty section list (generate_pdf returns a path, or None on failure)
ProcessResult ==
    /\ pc = "pc_result"
    /\ IF result.success = FALSE
       THEN tracker' = update(tracker, FALSE, FALSE)
       ELSE IF ~result.sections.isNone /\ result.sections.items # <<>>
            THEN \E pdf_path \in {"path", None} : tracker' = CountPdf(tracker, pdf_path)
            ELSE tracker' = update(tracker, TRUE, FALSE)
    /\ processed' = Append(processed, i)
    /\ pc' = "loop"
    /\ UNCHANGED <<links, env, i, ret, result, sess, gcBrowser, net, intr, loc>>
    /\ UNCHANGED <<fmtVars, pureVars>>

(***************************************************************************)
(* The section records the strategies build.                               *)
(***************************************************************************)
CityName(t) == IF t.city = Missing THEN "Unknown" ELSE t.city

\* a detection that reports the links found and leaves out where to review them
DetectedSectionsNoUrl(t, linkHit) ==
    IF linkHit
    THEN <<[title |-> "Ethics Code Detected in TOC",
            content |-> <<"detected sections:", "link titles">>,
            url |-> t.url]>>
    ELSE <<[title |-> "Ethics Content Detected",
            content |-> <<"content found in", CityName(t), "manual review at:", t.url>>,
            url |-> t.url]>>

\* amlegal_parser.py lines 77-106, civiclinq_parser.py lines 58-70 (and the
\* same lines of codepublishing_parser.py and encodeplus_parser.py)
DetectedSections(t, linkHit) ==
    IF linkHit
    THEN <<[title |-> "Ethics Code Detected in TOC",
            content |-> <<"detected sections:", "link titles", "manual review at:", t.url>>,
            url |-> t.url]>>
    ELSE <<[title |-> "Ethics Content Detected",
            content |-> <<"content found in", CityName(t), "manual review at:", t.url>>,
            url |-> t.url]>>

\* municode_library_parser.py lines 82-93
LibrarySections(t, chapter) ==
    IF chapter
    THEN <<[title |-> "Chapter",
            content |-> <<"chapter detected", "viewed at:", t.url>>]>>
    ELSE <<[title |-> "Ethics Code",
            content |-> <<"content detected", "viewed at:", t.url>>]>>

\* what a rendered Municipal Code Online page holds, by its section headings:
\* "plain": no ethics term anywhere; "keyword": a term in the text, none in a
\* heading; "excluded": a leaf heading with an ethics term and with 'animal'
\* or 'pet'; "toplevel": a chapter-level heading with an ethics term (and no
\* exclusion term); "real": leaf headings with an ethics term and no exclusion term
PageKinds == {"plain", "keyword", "excluded", "toplevel", "real"}

\* municode_parser.py line 80: some ethics term occurs in the html
HasEthics(kind) == kind # "plain"

\* municode_parser.py lines 83-94: some heading holds an ethics term and
\* neither 'animal' nor 'pet'
HasRealEthics(kind) == kind \in {"toplevel", "real"}

\* municode_parser.py lines 141-165: the headings find_ethics_sections keeps
\* are the leaf headings that hold an ethics term
KeptHeadings(kind, n) ==
    CASE kind = "real" -> n
      [] kind = "excluded" -> 1
      [] OTHER -> 0

\* municode_parser.py lines 211-224: the n sections found under the kept
\* headings of the page that shows chapter c (0: the page as fetched)
FoundSections(c, n) ==
    [k \in 1..n |-> [title |-> <<"heading", c, k>>, content |-> "text", type |-> "section"]]

\* generalcode_parser.py lines 165-169: n leaf sections extracted
LeafSections(n) == [k \in 1..n |-> [title |-> "link text", content |-> "main column", url |-> "section url"]]

(***************************************************************************)
(* Detection-only strategies: AmlegalParser, CivicLinQParser,              *)
(* CodePublishingParser, EncodePlusParser.                                 *)
(***************************************************************************)
\* the page.wait_for_timeout that follows page.goto (amlegal_parser.py line
\* 49, civiclinq_parser.py line 47, codepublishing_parser.py line 47,
\* encodeplus_parser.py line 47)
DetWait(p) ==
    CASE p = "Amlegal" -> 5000
      [] p = "CivicLinQ" -> 3000
      [] OTHER -> 2000

\* amlegal_parser.py lines 40-43 and 111-113: the driver is started and the
\* browser launched; a failure is caught and the strategy returns None
DetOpen ==
    /\ pc = "det_open"
    /\ \E ok \in BOOLEAN :
          IF ok
          THEN /\ sess' = [pw |-> TRUE, browser |-> TRUE]
               /\ pc' = "det_goto"
               /\ UNCHANGED <<ret, loc>>
          ELSE /\ sess' = WithExit(sess)
               /\ Returns(RetNone, "launch_failed")
    /\ UNCHANGED <<env, gcBrowser, net>>
    /\ Frame

\* amlegal_parser.py lines 47-51 and 111-113: the page is fetched; a failed
\* fetch raises inside the with block, is caught, and None is returned.
\* pageHit: the text of the fetched page holds an ethics term; linkHit: so
\* does the text of one of its links (which is part of the page text)
DetGoto ==
    /\ pc = "det_goto"
    /\ \E ok \in BOOLEAN :
          IF ok
          THEN /\ net' = Fetched(DetWait(cur.platform))
               /\ \E pageHit \in BOOLEAN, linkHit \in BOOLEAN :
                     /\ linkHit => pageHit
                     /\ loc' = [k |-> 0, pageHit |-> pageHit, linkHit |-> linkHit]
               /\ pc' = "det_parse"
               /\ UNCHANGED <<ret, sess>>
          ELSE /\ net' = Fetched(0)
               /\ sess' = WithExit(sess)
               /\ Returns(RetNone, "fetch_failed")
    /\ UNCHANGED <<env, gcBrowser>>
    /\ Frame

\* amlegal_parser.py lines 51-109: the browser is closed, the page parsed and
\* searched; the links are searched too by AmlegalParser only
DetParse ==
    /\ pc = "det_parse"
    /\ sess' = WithExit([sess EXCEPT !.browser = FALSE])
    /\ IF ~env.lxml
       THEN Returns(RetNone, "parse_failed")
       ELSE IF loc.pageHit
            THEN Returns(RetDict(DetectedSections(cur, loc.linkHit /\ cur.platform = "Amlegal"),
                                 TRUE), "found")
            ELSE Returns(RetNone, "no_match")
    /\ UNCHANGED <<env, gcBrowser, net>>
    /\ Frame

(***************************************************************************)
(* MunicodeLibraryParser (platform Municode).                              *)
(***************************************************************************)
\* municode_library_parser.py lines 22-23: city_info['city'] and
\* city_info['url'] raise KeyError outside the try block
MlEnter ==
    /\ pc = "ml_enter"
    /\ IF cur.city = Missing \/ cur.url = Missing
       THEN Returns(RetRaise("Exception"), "bad_target")
       ELSE pc' = "ml_open" /\ UNCHANGED <<ret, loc>>
    /\ UNCHANGED <<env, sess, gcBrowser, net>>
    /\ Frame

\* municode_library_parser.py lines 29-32 and 106-108
MlOpen ==
    /\ pc = "ml_open"
    /\ \E ok \in BOOLEAN :
          IF ok
          THEN /\ sess' = [pw |-> TRUE, browser |-> TRUE]
               /\ pc' = "ml_goto"
               /\ UNCHANGED <<ret, loc>>
          ELSE /\ sess' = WithExit(sess)
               /\ Returns(RetTuple(FALSE, PyList(<<>>)), "launch_failed")
    /\ UNCHANGED <<env, gcBrowser, net>>
    /\ Frame

\* municode_library_parser.py lines 34-36 and 106-108
MlGoto ==
    /\ pc = "ml_goto"
    /\ \E ok \in BOOLEAN :
          IF ok
          THEN /\ net' = Fetched(3000)
               /\ pc' = "ml_parse"
               /\ UNCHANGED <<ret, loc, sess>>
          ELSE /\ net' = Fetched(0)
               /\ sess' = WithExit(sess)
               /\ Returns(RetTuple(FALSE, PyList(<<>>)), "fetch_failed")
    /\ UNCHANGED <<env, gcBrowser>>
    /\ Frame

\* municode_library_parser.py lines 40-108: the table of contents is searched;
\* no entry gives (True, []), entries give one section per chapter title or
\* the fallback section
MlParse ==
    /\ pc = "ml_parse"
    /\ IF ~env.lxml
       THEN /\ sess' = WithExit(sess)
            /\ Returns(RetTuple(FALSE, PyList(<<>>)), "parse_failed")
       ELSE /\ sess' = WithExit([sess EXCEPT !.browser = FALSE])
            /\ \E found \in {"none", "chapter", "other"} :
                  IF found = "none"
                  THEN Returns(RetTuple(TRUE, PyList(<<>>)), "no_match")
                  ELSE Returns(RetTuple(TRUE, PyList(LibrarySections(cur, found = "chapter"))), "found")
    /\ UNCHANGED <<env, gcBrowser, net>>
    /\ Frame

(***************************************************************************)
(* MunicodeParser (platform Municipal Code Online).                        *)
(***************************************************************************)
\* municode_parser.py lines 310-324: a target without usable url fails at once
McoEnter ==
    /\ pc = "mco_enter"
    /\ IF cur.url = Missing \/ cur.url = ""
       THEN Returns(RetTuple(FALSE, PyNone), "bad_target")
       ELSE pc' = "fwp_open" /\ UNCHANGED <<ret, loc>>
    /\ UNCHANGED <<env, sess, gcBrowser, net>>
    /\ Frame

\* municode_parser.py lines 36-39, 119-121 and 327-328: fetch_with_playwright
\* starts the driver; on failure it returns None and scrape_city (False, None)
FwpOpen ==
    /\ pc = "fwp_open"
    /\ \E ok \in BOOLEAN :
          IF ok
          THEN /\ sess' = [pw |-> TRUE, browser |-> TRUE]
               /\ pc' = "fwp_goto"
               /\ UNCHANGED <<ret, loc>>
          ELSE /\ sess' = WithExit(sess)
               /\ Returns(RetTuple(FALSE, PyNone), "launch_failed")
    /\ UNCHANGED <<env, gcBrowser, net>>
    /\ Frame

\* municode_parser.py lines 40-45 and 119-121: the page is fetched, then
\* time.sleep(2); the chapters are walked on a main page only
FwpGoto ==
    /\ pc = "fwp_goto"
    /\ \E ok \in BOOLEAN :
          IF ok
          THEN /\ net' = Fetched(2000)
               /\ \E kind \in PageKinds :
                     loc' = [k |-> 0, page |-> [chapter |-> 0, kind |-> kind]]
               /\ pc' = IF cur.url = "main" THEN "fwp_items" ELSE "fwp_direct"
               /\ UNCHANGED <<ret, sess>>
          ELSE /\ net' = Fetched(0)
               /\ sess' = WithExit(sess)
               /\ Returns(RetTuple(FALSE, PyNone), "fetch_failed")
    /\ UNCHANGED <<env, gcBrowser>>
    /\ Frame

\* municode_parser.py lines 47-64 and 112-113: the tree items are listed and
\* filtered into n chapters; a failure of the listing falls through to the
\* direct read of line 116
FwpItems ==
    /\ pc = "fwp_items"
    /\ \/ /\ pc' = "fwp_direct"
          /\ UNCHANGED loc
       \/ \E n \in 0..MaxChapters :
             /\ loc' = [k |-> 1, n |-> n, eth |-> <<>>, page |-> loc.page]
             /\ pc' = "fwp_click"
    /\ UNCHANGED <<env, ret, sess, gcBrowser, net>>
    /\ Frame

\* municode_parser.py lines 69-100: chapter k is clicked, time.sleep(1), and
\* the page, which then shows that chapter, is checked; a failing chapter is
\* skipped.  The outcome o is "fail" (the click raises and the page stays as
\* it was) or the kind of the page the click loads.  The loaded html joins
\* ethics_chapters when it passes both checks (the second one parses it).
FwpClickAs(o) ==
    /\ pc = "fwp_click"
    /\ loc.k <= loc.n
    /\ net' = IF o = "fail" THEN net ELSE Fetched(1000)
    /\ LET chapter_html == [chapter |-> loc.k, kind |-> o]
       IN loc' = [loc EXCEPT !.k = @ + 1,
                             !.page = IF o = "fail" THEN @ ELSE chapter_html,
                             !.eth = IF /\ o # "fail"
                                        /\ HasEthics(o) /\ env.lxml /\ HasRealEthics(o)
                                     THEN Append(@, chapter_html) ELSE @]
    /\ UNCHANGED <<env, pc, ret, sess, gcBrowser>>
    /\ Frame

FwpClick == \E o \in {"fail"} \cup PageKinds : FwpClickAs(o)

\* municode_parser.py lines 102-107: the html handed on is the last of
\* ethics_chapters, or the page as it stands when none passed
LastOrPage(eth, page) == IF eth # <<>> THEN eth[Len(eth)] ELSE page

\* municode_parser.py lines 102-110: the html is chosen and returned after
\* browser.close(); walked and passed record the walk for the properties
FwpFinish ==
    /\ pc = "fwp_click"
    /\ loc.k > loc.n
    /\ sess' = WithExit([sess EXCEPT !.browser = FALSE])
    /\ loc' = [k |-> 0, html |-> LastOrPage(loc.eth, loc.page), walked |-> TRUE, passed |-> loc.eth]
    /\ pc' = "mco_find"
    /\ UNCHANGED <<env, ret, gcBrowser, net>>
    /\ Frame

\* municode_parser.py lines 115-118: the page content is read directly
FwpDirect ==
    /\ pc = "fwp_direct"
    /\ sess' = WithExit([sess EXCEPT !.browser = FALSE])
    /\ loc' = [k |-> 0, html |-> loc.page, walked |-> FALSE, passed |-> <<>>]
    /\ pc' = "mco_find"
    /\ UNCHANGED <<env, ret, gcBrowser, net>>
    /\ Frame

\* municode_parser.py lines 325-326 and 341-363: the html is parsed outside any
\* try block (bs4.FeatureNotFound is a ValueError), the headings are searched,
\* and (True, None) or (True, sections) is returned
McoFind ==
    /\ pc = "mco_find"
    /\ IF ~env.lxml
       THEN Returns(RetRaise("ValueError"), "parse_failed")
       ELSE \E n \in 1..MaxSections :
               IF KeptHeadings(loc.html.kind, n) = 0
               THEN Returns(RetTuple(TRUE, PyNone), "no_match")
               ELSE Returns(RetTuple(TRUE, PyList(FoundSections(loc.html.chapter,
                                                  KeptHeadings(loc.html.kind, n)))), "found")
    /\ UNCHANGED <<env, sess, gcBrowser, net>>
    /\ Frame

(***************************************************************************)
(* GeneralCodeParser (platform General Code).                              *)
(***************************************************************************)
\* generalcode_parser.py lines 189-193: the with block has been left when the
\* handler runs; it closes self.browser if that is set.  Closing a browser
\* whose driver has stopped either returns or raises.
GcFail(why) ==
    /\ sess' = WithExit(sess)
    /\ \E r \in (IF gcBrowser' # 0 THEN {RetNone, RetRaise("Exception")} ELSE {RetNone}) :
          Returns(r, why)

\* generalcode_parser.py lines 45-49: self.browser and self.page are set
GcOpen ==
    /\ pc = "gc_open"
    /\ \E ok \in BOOLEAN :
          IF ok
          THEN /\ sess' = [pw |-> TRUE, browser |-> TRUE]
               /\ gcBrowser' = i
               /\ pc' = "gc_home"
               /\ UNCHANGED <<ret, loc>>
          ELSE /\ gcBrowser' = gcBrowser
               /\ GcFail("launch_failed")
    /\ UNCHANGED <<env, net>>
    /\ Frame

\* generalcode_parser.py lines 53-55
GcHome ==
    /\ pc = "gc_home"
    /\ gcBrowser' = gcBrowser
    /\ \E ok \in BOOLEAN :
          IF ok
          THEN /\ net' = Fetched(2000)
               /\ pc' = "gc_filter"
               /\ UNCHANGED <<ret, loc, sess>>
          ELSE /\ net' = Fetched(0)
               /\ GcFail("fetch_failed")
    /\ UNCHANGED <<env>>
    /\ Frame

\* generalcode_parser.py lines 57-91: the chapter links of the homepage are
\* filtered and ordered into n chapters to check
GcFilter ==
    /\ pc = "gc_filter"
    /\ gcBrowser' = gcBrowser
    /\ IF ~env.lxml
       THEN GcFail("parse_failed")
       ELSE /\ \E n \in 0..MaxChapters :
                  loc' = [k |-> 1, n |-> n, eth |-> 0, j |-> 1, m |-> 0, secs |-> 0]
            /\ pc' = "gc_check"
            /\ UNCHANGED <<ret, sess>>
    /\ UNCHANGED <<env, net>>
    /\ Frame

\* generalcode_parser.py lines 95-108: chapter k is fetched and searched
GcCheck ==
    /\ pc = "gc_check"
    /\ loc.k <= loc.n
    /\ gcBrowser' = gcBrowser
    /\ \E ok \in BOOLEAN, hit \in BOOLEAN :
          IF ok
          THEN /\ net' = Fetched(1000)
               /\ loc' = [loc EXCEPT !.k = @ + 1, !.eth = IF hit THEN @ + 1 ELSE @]
               /\ UNCHANGED <<pc, ret, sess>>
          ELSE /\ ~hit
               /\ net' = Fetched(0)
               /\ GcFail("fetch_failed")
    /\ UNCHANGED <<env>>
    /\ Frame

\* The second pass entered as soon as one ethics chapter is known, while
\* chapters are still unchecked: the first loop left early
GcCheckedEarly ==
    /\ pc = "gc_check"
    /\ IF loc.eth = 0
       THEN /\ loc.k > loc.n
            /\ sess' = WithExit([sess EXCEPT !.browser = FALSE])
            /\ Returns(RetNone, "no_match")
       ELSE /\ pc' = "gc_scrape"
            /\ UNCHANGED <<ret, loc, sess>>
    /\ UNCHANGED <<env, gcBrowser, net>>
    /\ Frame

\* generalcode_parser.py lines 110-117: without ethics chapter the browser is
\* closed and None returned, otherwise the second pass starts
GcChecked ==
    /\ pc = "gc_check"
    /\ loc.k > loc.n
    /\ IF loc.eth = 0
       THEN /\ sess' = WithExit([sess EXCEPT !.browser = FALSE])
            /\ Returns(RetNone, "no_match")
       ELSE /\ pc' = "gc_scrape"
            /\ UNCHANGED <<ret, loc, sess>>
    /\ UNCHANGED <<env, gcBrowser, net>>
    /\ Frame

\* generalcode_parser.py lines 119-136: ethics chapter j is fetched again and
\* its m matching section links are collected
GcScrape ==
    /\ pc = "gc_scrape"
    /\ loc.j <= loc.eth
    /\ gcBrowser' = gcBrowser
    /\ \E ok \in BOOLEAN, m \in 0..MaxSecLinks :
          IF ok
          THEN /\ net' = Fetched(2000)
               /\ loc' = IF m = 0 THEN [loc EXCEPT !.j = @ + 1] ELSE [loc EXCEPT !.m = m]
               /\ pc' = IF m = 0 THEN "gc_scrape" ELSE "gc_section"
               /\ UNCHANGED <<ret, sess>>
          ELSE /\ m = 0
               /\ net' = Fetched(0)
               /\ GcFail("fetch_failed")
    /\ UNCHANGED <<env>>
    /\ Frame

\* generalcode_parser.py lines 137-171: a matching link is resolved and
\* fetched; the section is kept when the main column is found
GcSection ==
    /\ pc = "gc_section"
    /\ gcBrowser' = gcBrowser
    /\ \E ok \in BOOLEAN, found \in BOOLEAN :
          IF ok
          THEN /\ net' = Fetched(2000)
               /\ loc' = [loc EXCEPT !.m = @ - 1,
                                     !.secs = IF found THEN @ + 1 ELSE @,
                                     !.j = IF loc.m = 1 THEN @ + 1 ELSE @]
               /\ pc' = IF loc.m = 1 THEN "gc_scrape" ELSE "gc_section"
               /\ UNCHANGED <<ret, sess>>
          ELSE /\ ~found
               /\ net' = Fetched(0)
               /\ GcFail("fetch_failed")
    /\ UNCHANGED <<env>>
    /\ Frame

\* generalcode_parser.py lines 173-187: the browser is closed; None without
\* extracted section, the result dict otherwise
GcFinish ==
    /\ pc = "gc_scrape"
    /\ loc.j > loc.eth
    /\ sess' = WithExit([sess EXCEPT !.browser = FALSE])
    /\ IF loc.secs = 0
       THEN Returns(RetNone, "no_match")
       ELSE Returns(RetDict(LeafSections(loc.secs), FALSE), "found")
    /\ UNCHANGED <<env, gcBrowser, net>>
    /\ Frame

(***************************************************************************)
(* The ecode360 run: Ecode360Scraper (main_360.py) and Ecode360Parser.     *)
(***************************************************************************)
\* the city records of the ecode360 cache file: well-formed, or without city key
E360Kinds ==
    { Target("ecode360", "main", "city"), Target("ecode360", "main", Missing) }

\* ecode360_parser.py lines 216-222: n sections scraped
ScrapedSections(n) ==
    [k \in 1..n |-> [title |-> "link text", url |-> "section url", full_text |-> "text"]]

\* main_360.py lines 148-155: the city list is loaded; an empty list ends the run
E360RunStart ==
    /\ pc = "e_run"
    /\ pc' = IF links = <<>> THEN "done" ELSE "e_loop"
    /\ tracker' = [tracker EXCEPT !.total_cities = Len(links)]
    /\ UNCHANGED <<links, env, i, ret, result, processed, sess, gcBrowser, net, intr, loc>>
    /\ UNCHANGED <<fmtVars, pureVars>>

\* main_360.py lines 167-170 and 238-242: the loop takes the next city and
\* prints city_info['city'] before process_city; its KeyError ends main
E360LoopNext ==
    /\ pc = "e_loop"
    /\ i < Len(links)
    /\ i' = i + 1
    /\ pc' = IF links[i + 1].city = Missing THEN "fatal" ELSE "e_open"
    /\ ret' = NoRet
    /\ UNCHANGED <<links, env, result, tracker, processed, sess, gcBrowser, net, intr, loc>>
    /\ UNCHANGED <<fmtVars, pureVars>>

\* main_360.py lines 175-176: the loop is exhausted and the summary is printed
E360RunFinish ==
    /\ pc = "e_loop"
    /\ i = Len(links)
    /\ pc' = "done"
    /\ UNCHANGED <<links, env, i, ret, result, tracker, processed, sess, gcBrowser, net, intr, loc>>
    /\ UNCHANGED <<fmtVars, pureVars>>

\* the strategy returns r to Ecode360Scraper.process_city
Returns360(r, why) == ret' = [val |-> r, why |-> why] /\ pc' = "e_ret" /\ loc' = NoLoc

\* ecode360_parser.py lines 62-75 and 134-136
E360Open ==
    /\ pc = "e_open"
    /\ \E ok \in BOOLEAN :
          IF ok
          THEN /\ sess' = [pw |-> TRUE, browser |-> TRUE]
               /\ pc' = "e_home"
               /\ UNCHANGED <<ret, loc>>
          ELSE /\ sess' = WithExit(sess)
               /\ Returns360(RetNone, "launch_failed")
    /\ UNCHANGED <<env, gcBrowser, net>>
    /\ Frame

\* ecode360_parser.py lines 79-81 and 134-136: the homepage is fetched, then
\* time.sleep(2)
E360Home ==
    /\ pc = "e_home"
    /\ \E ok \in BOOLEAN :
          IF ok
          THEN /\ net' = Fetched(2000)
               /\ pc' = "e_toc"
               /\ UNCHANGED <<ret, loc, sess>>
          ELSE /\ net' = Fetched(0)
               /\ sess' = WithExit(sess)
               /\ Returns360(RetNone, "fetch_failed")
    /\ UNCHANGED <<env, gcBrowser>>
    /\ Frame

\* ecode360_parser.py lines 83-97: the page is parsed and all_links holds the
\* n title links of the table of contents; none has been tested yet
E360Toc ==
    /\ pc = "e_toc"
    /\ IF ~env.lxml
       THEN /\ sess' = WithExit(sess)
            /\ Returns360(RetNone, "parse_failed")
       ELSE /\ \E n \in 0..MaxChapters :
                  loc' = [k |-> 0, n |-> n, cands |-> 0, secs |-> 0]
            /\ pc' = "e_section"
            /\ UNCHANGED <<ret, sess>>
    /\ UNCHANGED <<env, gcBrowser, net>>
    /\ Frame

\* ecode360_parser.py lines 98-119 and 149-229: one turn of the loop over
\* all_links.  The title of link k+1 is tested for an ethics term (line 104);
\* a link that matches is scraped at once by _scrape_section, which fetches
\* the section, waits and collects its content, or returns None on any
\* failure; a link that does not match is passed over
E360Section ==
    /\ pc = "e_section"
    /\ loc.k < loc.n
    /\ \E match \in BOOLEAN :
          IF match
          THEN \E ok \in BOOLEAN, got \in BOOLEAN :
                  /\ got => ok /\ env.lxml
                  /\ net' = IF ok THEN Fetched(2000) ELSE Fetched(0)
                  /\ loc' = [loc EXCEPT !.k = @ + 1, !.cands = @ + 1,
                                        !.secs = IF got THEN @ + 1 ELSE @]
          ELSE /\ loc' = [loc EXCEPT !.k = @ + 1]
               /\ UNCHANGED net
    /\ UNCHANGED <<env, pc, ret, sess, gcBrowser>>
    /\ Frame

\* ecode360_parser.py lines 121-132: the result dict, or None; the with block
\* is left without any browser.close()
E360Finish ==
    /\ pc = "e_section"
    /\ loc.k = loc.n
    /\ sess' = WithExit(sess)
    /\ IF loc.secs > 0
       THEN Returns360(RetDict(ScrapedSections(loc.secs), FALSE), "found")
       ELSE Returns360(RetNone, "no_match")
    /\ UNCHANGED <<env, gcBrowser, net>>
    /\ Frame

\* main_360.py lines 87-127 and 171: the PDF is generated for a result with
\* sections and the city is counted as processed
E360ProcessResult ==
    /\ pc = "e_ret"
    /\ IF ret.val.kind = "dict"
       THEN \E filepath \in {"path", None} :
               tracker' = [tracker EXCEPT !.processed = @ + 1,
                                          !.ethics_found = IF filepath # None THEN @ + 1 ELSE @]
       ELSE tracker' = [tracker EXCEPT !.processed = @ + 1]
    /\ processed' = Append(processed, i)
    /\ pc' = "e_loop"
    /\ UNCHANGED <<links, env, i, ret, result, sess, gcBrowser, net, intr, loc>>
    /\ UNCHANGED <<fmtVars, pureVars>>

(***************************************************************************)
(* The operator interrupt (KeyboardInterrupt).                             *)
(***************************************************************************)
\* positions inside ParserFactory.scrape_city: the extraction of a target
Extracting ==
    { "factory", "det_open", "det_goto", "det_parse", "ml_enter", "ml_open", "ml_goto",
      "ml_parse", "mco_enter", "fwp_open", "fwp_goto", "fwp_items", "fwp_click",
      "fwp_direct", "mco_find", "gc_open", "gc_home", "gc_filter", "gc_check",
      "gc_scrape", "gc_section", "factory_ret",
      "e_open", "e_home", "e_toc", "e_section" }

\* positions of process_city outside the extraction
InTarget == Extracting \cup {"process_city", "pc_result", "e_ret"}

\* main.py lines 146-151, main_360.py lines 231-237: KeyboardInterrupt is no
\* Exception, so no handler of the strategies, of scrape_city or of
\* process_city catches it; it leaves the with block in force and ends main
InterruptPropagates ==
    /\ ~intr.raised
    /\ pc \in InTarget \cup {"loop", "e_loop"}
    /\ intr' = [raised |-> TRUE, at |-> pc, swallowed |-> FALSE]
    /\ sess' = IF sess.pw THEN WithExit(sess) ELSE sess
    /\ pc' = "interrupted"
    /\ ret' = NoRet
    /\ loc' = NoLoc
    /\ UNCHANGED <<links, env, i, result, tracker, processed, gcBrowser, net>>
    /\ UNCHANGED <<fmtVars, pureVars>>

\* municode_parser.py lines 56-62, ecode360_parser.py lines 155-160: the bare
\* except around item.text_content() and around wait_for_selector catches
\* KeyboardInterrupt too and the strategy goes on
InterruptSwallowed ==
    /\ ~intr.raised
    /\ \/ pc = "fwp_items"
       \/ pc = "e_section" /\ loc.k < loc.n
    /\ intr' = [raised |-> TRUE, at |-> pc, swallowed |-> TRUE]
    /\ UNCHANGED <<links, env, i, pc, ret, result, tracker, processed, sess, gcBrowser, net, loc>>
    /\ UNCHANGED <<fmtVars, pureVars>>

(***************************************************************************)
(* The term matchers: search_for_ethics_sections of the seven strategies,  *)
(* search_for_ethics_terms and contains_aspirational_language of           *)
(* Ecode360Parser, and the vocabularies they read.                         *)
(***************************************************************************)
MaxFrags == 2

UpperLetters ==
    <<"A", "B", "C", "D", "E", "F", "G", "H", "I", "J", "K", "L", "M", "N", "O", "P", "Q", "R", "S", "T", "U", "V", "W", "X", "Y", "Z">>

LowerLetters ==
    <<"a", "b", "c", "d", "e", "f", "g", "h", "i", "j", "k", "l", "m", "n", "o", "p", "q", "r", "s", "t", "u", "v", "w", "x", "y", "z">>

\* a text that is matched as it stands, without str.lower()
lower_forgotten(s) == s

LowerOf == [c \in {UpperLetters[n] : n \in 1..26} |->
                LowerLetters[CHOOSE n \in 1..26 : UpperLetters[n] = c]]

UpperOf == [c \in {LowerLetters[n] : n \in 1..26} |->
                UpperLetters[CHOOSE n \in 1..26 : LowerLetters[n] = c]]

\* str.lower(): every upper-case letter becomes its lower-case letter
lower(s) == [k \in 1..Len(s) |-> IF s[k] \in DOMAIN LowerOf THEN LowerOf[s[k]] ELSE s[k]]

\* str.upper()
upper(s) == [k \in 1..Len(s) |-> IF s[k] \in DOMAIN UpperOf THEN UpperOf[s[k]] ELSE s[k]]

\* str.swapcase()
swapcase(s) ==
    [k \in 1..Len(s) |-> IF s[k] \in DOMAIN LowerOf THEN LowerOf[s[k]]
                         ELSE IF s[k] \in DOMAIN UpperOf THEN UpperOf[s[k]] ELSE s[k]]

\* python's "term in text" for two strings
Contains(term, text) ==
    \E k \in 0..(Len(text) - Len(term)) : SubSeq(text, k + 1, k + Len(term)) = term

\* config.py lines 14-28
ETHICS_TERMS ==
    { <<"c", "o", "d", "e", " ", "o", "f", " ", "e", "t", "h", "i", "c", "s">>,
      <<"c", "o", "d", "e", " ", "o", "f", " ", "c", "o", "n", "d", "u", "c", "t">>,
      <<"e", "t", "h", "i", "c", "s", " ", "c", "o", "d", "e">>,
      <<"p", "r", "o", "f", "e", "s", "s", "i", "o", "n", "a", "l", " ", "c", "o", "n", "d", "u", "c", "t">>,
      <<"s", "t", "a", "n", "d", "a", "r", "d", "s", " ", "o", "f", " ", "c", "o", "n", "d", "u", "c", "t">>,
      <<"e", "t", "h", "i", "c", "a", "l", " ", "s", "t", "a", "n", "d", "a", "r", "d", "s">>,
      <<"c", "o", "n", "d", "u", "c", "t", " ", "c", "o", "d", "e">>,
      <<"r", "u", "l", "e", "s", " ", "o", "f", " ", "c", "o", "n", "d", "u", "c", "t">>,
      <<"e", "m", "p", "l", "o", "y", "e", "e", " ", "c", "o", "n", "d", "u", "c", "t">>,
      <<"e", "t", "h", "i", "c", "s", " ", "p", "o", "l", "i", "c", "y">>,
      <<"e", "t", "h", "i", "c", "s">>,
      <<"c", "o", "n", "f", "l", "i", "c", "t", " ", "o", "f", " ", "i", "n", "t", "e", "r", "e", "s", "t">>,
      <<"c", "o", "n", "f", "l", "i", "c", "t", "s", " ", "o", "f", " ", "i", "n", "t", "e", "r", "e", "s", "t">> }

\* amlegal_parser.py lines 12-15, and the same list in civiclinq_parser.py,
\* codepublishing_parser.py and encodeplus_parser.py lines 11-14
DetectionTerms ==
    { <<"e", "t", "h", "i", "c">>,
      <<"c", "o", "n", "f", "l", "i", "c", "t", " ", "o", "f", " ", "i", "n", "t", "e", "r", "e", "s", "t">>,
      <<"f", "i", "n", "a", "n", "c", "i", "a", "l", " ", "d", "i", "s", "c", "l", "o", "s", "u", "r", "e">>,
      <<"c", "o", "d", "e", " ", "o", "f", " ", "c", "o", "n", "d", "u", "c", "t">>,
      <<"p", "r", "o", "h", "i", "b", "i", "t", "e", "d", " ", "i", "n", "t", "e", "r", "e", "s", "t">> }

\* generalcode_parser.py lines 12-15
GeneralCodeTerms ==
    { <<"e", "t", "h", "i", "c">>,
      <<"c", "o", "n", "f", "l", "i", "c", "t", " ", "o", "f", " ", "i", "n", "t", "e", "r", "e", "s", "t">>,
      <<"f", "i", "n", "a", "n", "c", "i", "a", "l", " ", "d", "i", "s", "c", "l", "o", "s", "u", "r", "e">>,
      <<"c", "o", "d", "e", " ", "o", "f", " ", "c", "o", "n", "d", "u", "c", "t">>,
      <<"p", "u", "b", "l", "i", "c", " ", "o", "f", "f", "i", "c", "e", "r">>,
      <<"p", "r", "o", "h", "i", "b", "i", "t", "e", "d", " ", "i", "n", "t", "e", "r", "e", "s", "t">> }

\* ecode360_parser.py lines 17-21
Ecode360Terms ==
    { <<"e", "t", "h", "i", "c">>,
      <<"c", "o", "d", "e", " ", "o", "f", " ", "c", "o", "n", "d", "u", "c", "t">>,
      <<"c", "o", "d", "e", " ", "o", "f", " ", "e", "t", "h", "i", "c">>,
      <<"c", "o", "n", "f", "l", "i", "c", "t", " ", "o", "f", " ", "i", "n", "t", "e", "r", "e", "s", "t">>,
      <<"f", "i", "n", "a", "n", "c", "i", "a", "l", " ", "d", "i", "s", "c", "l", "o", "s", "u", "r", "e">>,
      <<"p", "u", "b", "l", "i", "c", " ", "o", "f", "f", "i", "c", "e", "r">>,
      <<"p", "r", "o", "h", "i", "b", "i", "t", "e", "d", " ", "i", "n", "t", "e", "r", "e", "s", "t">>,
      <<"s", "t", "a", "n", "d", "a", "r", "d", "s", " ", "o", "f", " ", "c", "o", "n", "d", "u", "c", "t">>,
      <<"p", "r", "o", "f", "e", "s", "s", "i", "o", "n", "a", "l", " ", "c", "o", "n", "d", "u", "c", "t">> }

\* ecode360_parser.py lines 23-26 (the same phrases as config.py lines 46-54)
ASPIRATIONAL_TERMS ==
    { <<"s", "t", "r", "i", "v", "e">>,
      <<"s", "h", "a", "l", "l", " ", "e", "n", "d", "e", "a", "v", "o", "r">>,
      <<"a", "s", "p", "i", "r", "e">>,
      <<"s", "e", "e", "k", " ", "t", "o">>,
      <<"b", "e", "s", "t", " ", "i", "n", "t", "e", "r", "e", "s", "t">>,
      <<"s", "h", "a", "l", "l", " ", "p", "u", "r", "s", "u", "e">>,
      <<"c", "o", "m", "m", "i", "t", " ", "t", "o">> }

\* the matchers that decide ethics relevance, by the platform of their strategy
EthicsMatchers == Registry \cup {"ecode360"}

Matchers == EthicsMatchers \cup {"aspirational"}

\* the vocabulary a matcher reads
Vocabulary(m) ==
    CASE m \in {"Municipal Code Online", "Municode"} -> ETHICS_TERMS
      [] m \in DetectionOnly -> DetectionTerms
      [] m = "General Code" -> GeneralCodeTerms
      [] m = "ecode360" -> Ecode360Terms
      [] m = "aspirational" -> ASPIRATIONAL_TERMS

\* municode_parser.py lines 19-22 and the matchers of the other modules:
\* any(term in text.lower() for term in the vocabulary);
\* municode_library_parser.py lines 12-15 lowers the term as well
search_for_ethics_sections(m, text) ==
    LET text_lower == lower(text)
    IN \E term \in Vocabulary(m) :
          Contains(IF m = "Municode" THEN lower(term) ELSE term, text_lower)

\* the pieces a text is assembled from
Fragments ==
    { <<"E", "t", "h", "i", "c">>,
      <<"E", "T", "H", "I", "C", "S">>,
      <<"C", "o", "d", "e", " ", "o", "f", " ", "C", "o", "n", "d", "u", "c", "t">>,
      <<"f", "i", "n", "a", "n", "c", "i", "a", "l", " ", "d", "i", "s", "c", "l", "o", "s", "u", "r", "e">>,
      <<"P", "u", "b", "l", "i", "c", " ", "O", "f", "f", "i", "c", "e", "r">>,
      <<" ">>,
      <<"W", "e", " ", "S", "t", "r", "i", "v", "e">> }

RECURSIVE Concat(_)
Concat(ss) == IF ss = <<>> THEN <<>> ELSE Head(ss) \o Concat(Tail(ss))

MatchTexts == { Concat(fs) : fs \in SeqsUpTo(Fragments, MaxFrags) }

\* the matchers are called with a text
MatchText ==
    /\ mpc = "start"
    /\ mRes' = [m \in Matchers |-> search_for_ethics_sections(m, mText)]
    /\ mBase' = mRes'
    /\ mpc' = "matched"
    /\ UNCHANGED <<mText, mEdits>>
    /\ UNCHANGED exceptMatch

\* the matchers are called again with the text t, a variant of the text as
\* first given
Rematch(t) ==
    /\ mpc = "matched"
    /\ mEdits = 0
    /\ t # mText
    /\ mText' = t
    /\ mRes' = [m \in Matchers |-> search_for_ethics_sections(m, t)]
    /\ mEdits' = mEdits + 1
    /\ UNCHANGED <<mBase, mpc>>
    /\ UNCHANGED exceptMatch

\* the case of one letter, or of all letters, is changed
MatchRecased ==
    \/ \E k \in 1..Len(mText) :
          \/ Rematch([mText EXCEPT ![k] = lower(<<@>>)[1]])
          \/ Rematch([mText EXCEPT ![k] = upper(<<@>>)[1]])
    \/ Rematch(lower(mText))
    \/ Rematch(upper(mText))
    \/ Rematch(swapcase(mText))

\* whitespace is added in front or at the end, or the text is stripped
MatchRespaced ==
    \/ \E w \in {" ", "NL"} : Rematch(<<w>> \o mText) \/ Rematch(Append(mText, w))
    \/ Rematch(Strip(mText))

NextMatch ==
    \/ MatchText
    \/ MatchRecased
    \/ MatchRespaced

(***************************************************************************)
(* The link cache: load_or_collect_links (main.py) with save_links and     *)
(* load_links (byu_collector.py), and collect_all_cities (main_360.py)     *)
(* with save_cities and load_cities (ecode360_collector.py).               *)
(***************************************************************************)
MaxRuns == 2

\* the keys of a record in the order the collectors write them
RecordKeys == <<"city", "url", "platform">>

\* a dump that writes the key of a record and forgets its value when it is empty
RECURSIVE DumpPairsDropEmpty(_, _)
DumpPairsDropEmpty(t, keys) ==
    IF keys = <<>> THEN <<>>
    ELSE (IF t[Head(keys)] \in {Missing, ""} THEN <<>> ELSE <<Head(keys), t[Head(keys)]>>)
         \o DumpPairsDropEmpty(t, Tail(keys))

\* json.dump of one record: its keys that are present, each with its value
RECURSIVE DumpPairs(_, _)
DumpPairs(t, keys) ==
    IF keys = <<>> THEN <<>>
    ELSE (IF t[Head(keys)] = Missing THEN <<>> ELSE <<Head(keys), t[Head(keys)]>>)
         \o DumpPairs(t, Tail(keys))

RECURSIVE DumpRecords(_)
DumpRecords(ls) ==
    IF ls = <<>> THEN <<>>
    ELSE <<"{">> \o DumpPairs(Head(ls), RecordKeys) \o <<"}">> \o DumpRecords(Tail(ls))

\* byu_collector.py lines 97-98, ecode360_collector.py lines 141-142:
\* json.dump(links, f): the text written for a list of records
json_dump(ls) == <<"[">> \o DumpRecords(ls) \o <<"]">>

\* json.load of one object: the pairs from position k up to the closing brace
RECURSIVE LoadPairs(_, _, _)
LoadPairs(toks, k, rec) ==
    IF toks[k] = "}" THEN [rec |-> rec, next |-> k + 1]
    ELSE LoadPairs(toks, k + 2, [rec EXCEPT ![toks[k]] = toks[k + 1]])

RECURSIVE LoadRecords(_, _)
LoadRecords(toks, k) ==
    IF toks[k] = "]" THEN <<>>
    ELSE LET obj == LoadPairs(toks, k + 1, Target(Missing, Missing, Missing))
         IN <<obj.rec>> \o LoadRecords(toks, obj.next)

\* byu_collector.py lines 105-106, ecode360_collector.py lines 148-149:
\* json.load(f): the list of records read from the text
json_load(toks) == LoadRecords(toks, 2)

\* the records a collector finds on the web or a cache file holds
CachedKinds ==
    { Target("Municode", "main", "city"),
      Target("Amlegal", "", "other city"),
      Target(Missing, "main", "city") }

CachedLists == SeqsUpTo(CachedKinds, MaxTargets)

\* main.py lines 24-27, main_360.py lines 63-65: the cache file exists and
\* re-collection is not forced: the list is read from the file
LoadCached ==
    /\ cpc = "load"
    /\ ~cForce /\ cFile.exists
    /\ cLinks' = json_load(cFile.text)
    /\ cpc' = "loaded"
    /\ UNCHANGED <<cFile, cStored, cCalls, cForce, cRun>>
    /\ UNCHANGED exceptCache

\* main.py lines 28-31, main_360.py lines 67-75: the collector runs and its
\* result is written to the cache file
CollectAndSave ==
    /\ cpc = "load"
    /\ cForce \/ ~cFile.exists
    /\ \E all_links \in CachedLists :
          /\ cLinks' = all_links
          /\ cFile' = [exists |-> TRUE, text |-> json_dump(all_links)]
          /\ cStored' = all_links
    /\ cCalls' = cCalls + 1
    /\ cpc' = "loaded"
    /\ UNCHANGED <<cForce, cRun>>
    /\ UNCHANGED exceptCache

\* main.py line 90, main_360.py lines 150 and 229: the loader is called again,
\* by a following run or, after --recollect, by the run of the same process
LoadAgain ==
    /\ cpc = "loaded"
    /\ cRun < MaxRuns
    /\ cRun' = cRun + 1
    /\ cForce' \in BOOLEAN
    /\ cpc' = "load"
    /\ UNCHANGED <<cFile, cStored, cLinks, cCalls>>
    /\ UNCHANGED exceptCache

NextCache ==
    \/ LoadCached
    \/ CollectAndSave
    \/ LoadAgain

(***************************************************************************)
(* MunicodeParser.find_ethics_sections for Municipal Code Online: the loop *)
(* over the headings of the contents div, the chapter-level skip, the      *)
(* ethics test and the walk over the siblings of the heading's parent.     *)
(***************************************************************************)
MaxHeadings == 2
MaxSiblings == 2

\* municode_parser.py line 208: the safety limit of the sibling walk
SectionCharLimit == 5000

DigitChars == {"0", "1", "2", "3", "4", "5", "6", "7", "8", "9"}

\* str.isdigit(): not empty and nothing but digits
isdigit(s) == s # <<>> /\ \A k \in 1..Len(s) : s[k] \in DigitChars

\* str.count(c)
count(s, c) == Cardinality({k \in 1..Len(s) : s[k] = c})

\* heading_text.split()[0] of a text without leading whitespace
RECURSIVE FirstWord(_)
FirstWord(s) ==
    IF s = <<>> \/ IsSpace(Head(s)) THEN <<>> ELSE <<Head(s)>> \o FirstWord(Tail(s))

\* a chapter-level test that takes the hyphens out of the first word and
\* leaves the dots in
IsChapterLevelDotsKept(first_word) ==
    /\ isdigit(SelectSeq(first_word, LAMBDA c : c # "-"))
    /\ count(first_word, ".") < 2 /\ count(first_word, "-") < 2

\* municode_parser.py lines 152-161
IsChapterLevel(first_word) ==
    /\ isdigit(SelectSeq(first_word, LAMBDA c : c \notin {"-", "."}))
    /\ count(first_word, ".") < 2 /\ count(first_word, "-") < 2

\* the heading divs of a page: is there a k-link in it, and the text of the link
Headings ==
    { [link |-> TRUE,  text |-> <<"3", " ", "E", "t", "h", "i", "c", "s">>],
      [link |-> TRUE,  text |-> <<"3", ".", "1", " ", "E", "t", "h", "i", "c", "s">>],
      [link |-> TRUE,  text |-> <<"3", ".", "1", ".", "2", " ", "E", "t", "h", "i", "c", "s">>],
      [link |-> TRUE,  text |-> <<"-", " ", "E", "t", "h", "i", "c", "s">>],
      [link |-> TRUE,  text |-> <<"3", ".", "1", ".", "2", " ", "Z", "o", "n", "i", "n", "g">>],
      [link |-> TRUE,  text |-> <<>>],
      [link |-> FALSE, text |-> <<>>] }

\* a text: the characters it begins with, followed by fill further letters
Text(lead, fill) == [lead |-> lead, fill |-> fill]

\* len(text)
TextLen(t) == Len(t.lead) + t.fill

\* text[:10]
First10(t) == SubSeq(t.lead, 1, IF Len(t.lead) < 10 THEN Len(t.lead) ELSE 10)

\* sibling.strip() and sibling.get_text(strip=True)
StripText(t) == Text(IF t.fill = 0 THEN Strip(t.lead) ELSE LStrip(t.lead), t.fill)

\* the siblings that may follow the parent of a heading: a text node, a div
\* with its class, or another element, each with its text
Siblings ==
    { [kind |-> "text",  class |-> "",         text |-> Text(<<" ">>, 0)],
      [kind |-> "text",  class |-> "",         text |-> Text(<<"3", "-", "1", "-", "3", " ", "G", "i", "f", "t", "s">>, 0)],
      [kind |-> "div",   class |-> "",         text |-> Text(<<"3", "-", "1", "-", "3", " ", "G", "i", "f", "t", "s">>, 0)],
      [kind |-> "div",   class |-> "phx-docs", text |-> Text(<<"N", "o", " ", "o", "f", "f", "i", "c", "e", "r">>, 0)],
      [kind |-> "div",   class |-> "phx-name", text |-> Text(<<"5", "4", ".", "0", "7", "0", " ", "N", "e", "x", "t">>, 0)],
      [kind |-> "other", class |-> "",         text |-> Text(<<"5", "4", ".", "0", "7", "0", " ", "N", "e", "x", "t">>, 0)],
      [kind |-> "other", class |-> "",         text |-> Text(<<"N", "o", " ", "o", "f", "f", "i", "c", "e", "r">>, 0)],
      [kind |-> "div",   class |-> "",         text |-> Text(<<"N", "o", " ", "o", "f", "f", "i", "c", "e", "r">>, 6000)] }

\* municode_parser.py line 182: the test of a text node for a section number
StartsWithNumberOrHyphen(text) ==
    /\ TextLen(text) > 3 /\ text.lead # <<>> /\ isdigit(<<text.lead[1]>>)
    /\ (Contains(<<".">>, First10(text)) \/ Contains(<<"-">>, First10(text)))

\* municode_parser.py lines 193 and 202: the test of a div and of another element
StartsWithNumber(text) ==
    /\ TextLen(text) > 3 /\ text.lead # <<>> /\ isdigit(<<text.lead[1]>>)
    /\ Contains(<<".">>, First10(text))

\* municode_parser.py lines 177-204: does the walk break at this sibling
\* before it takes its text
BreaksAt(s) ==
    LET text == StripText(s.text)
    IN CASE s.kind = "text" -> TextLen(text) > 0 /\ StartsWithNumberOrHyphen(text)
         [] s.kind = "div" -> \/ s.class \in {"phx-name", "phx-docs"}
                              \/ TextLen(text) > 0 /\ StartsWithNumber(text)
         [] OTHER -> TextLen(text) > 0 /\ StartsWithNumber(text)

\* municode_parser.py line 207: sum(len(p) for p in content_parts)
RECURSIVE total_length(_)
total_length(parts) ==
    IF parts = <<>> THEN 0 ELSE TextLen(Head(parts)) + total_length(Tail(parts))

\* municode_parser.py lines 211-224: the section record of a heading; its
\* content is the parts joined by one blank, the empty text when there is none
SectionOf(h, parts) == [title |-> h.text, content |-> parts, type |-> "section"]

\* municode_parser.py lines 134-136: the page has no contents div
FindNoContents ==
    /\ hpc = "enter"
    /\ hpc' = "done"
    /\ UNCHANGED <<heading, outcome, walked, content_parts, ethics_sections, nHead>>
    /\ UNCHANGED exceptFind

\* municode_parser.py lines 134-139: the headings of the contents div are found
FindEnter ==
    /\ hpc = "enter"
    /\ hpc' = "heading"
    /\ UNCHANGED <<heading, outcome, walked, content_parts, ethics_sections, nHead>>
    /\ UNCHANGED exceptFind

\* municode_parser.py lines 141-171: the next heading is taken up
FindHeading ==
    /\ hpc = "heading"
    /\ nHead < MaxHeadings
    /\ \E section_div \in Headings :
          LET heading_text == section_div.text
              o == IF ~section_div.link THEN "no_link"
                   ELSE IF heading_text # <<>> /\ IsChapterLevel(FirstWord(heading_text))
                        THEN "chapter_level"
                   ELSE IF ~search_for_ethics_sections("Municipal Code Online", heading_text)
                        THEN "no_match"
                   ELSE "kept"
          IN /\ heading' = section_div
             /\ outcome' = o
             /\ hpc' = IF o = "kept" THEN "walk" ELSE "heading"
             /\ content_parts' = IF o = "kept" THEN <<>> ELSE content_parts
             /\ walked' = IF o = "kept" THEN <<>> ELSE walked
    /\ nHead' = nHead + 1
    /\ UNCHANGED ethics_sections
    /\ UNCHANGED exceptFind

\* municode_parser.py lines 175-224: the next sibling of the heading's parent
FindSibling ==
    /\ hpc = "walk"
    /\ Len(walked) < MaxSiblings
    /\ \E sibling \in Siblings :
          LET text == StripText(sibling.text)
              stop == BreaksAt(sibling)
              parts == IF ~stop /\ TextLen(text) > 0
                       THEN Append(content_parts, text) ELSE content_parts
          IN /\ walked' = Append(walked, sibling)
             /\ content_parts' = parts
             /\ IF stop \/ total_length(parts) > SectionCharLimit
                THEN /\ ethics_sections' = Append(ethics_sections, SectionOf(heading, parts))
                     /\ hpc' = "heading"
                ELSE /\ hpc' = "walk"
                     /\ UNCHANGED ethics_sections
    /\ UNCHANGED <<heading, outcome, nHead>>
    /\ UNCHANGED exceptFind

\* municode_parser.py lines 175 and 211-224: the parent has no further sibling
FindSiblingsEnd ==
    /\ hpc = "walk"
    /\ ethics_sections' = Append(ethics_sections, SectionOf(heading, content_parts))
    /\ hpc' = "heading"
    /\ UNCHANGED <<heading, outcome, walked, content_parts, nHead>>
    /\ UNCHANGED exceptFind

\* municode_parser.py line 141: there is no further heading
FindReturn ==
    /\ hpc = "heading"
    /\ hpc' = "done"
    /\ UNCHANGED <<heading, outcome, walked, content_parts, ethics_sections, nHead>>
    /\ UNCHANGED exceptFind

NextFind ==
    \/ FindNoContents
    \/ FindEnter
    \/ FindHeading
    \/ FindSibling
    \/ FindSiblingsEnd
    \/ FindReturn

(***************************************************************************)
(* The tree-item walk of MunicodeParser.fetch_with_playwright: the tree    *)
(* items of the page are filtered into the chapter candidates.             *)
(***************************************************************************)
MaxItems == 2

\* municode_parser.py line 55: tree_items[:20]
TreeItemLimit == 20

\* what item.text_content() gives for a tree item: a text, None, or an exception
TreeItems ==
    { [kind |-> "text", text |-> <<"3", " ", "E", "t", "h", "i", "c", "s">>],
      [kind |-> "text", text |-> <<"1", "0", " ", "Z", "o", "n", "i", "n", "g">>],
      [kind |-> "text", text |-> <<"3", ".", "1", ".", "2", " ", "G", "i", "f", "t", "s">>],
      [kind |-> "text", text |-> <<"3">>],
      [kind |-> "text", text |-> <<"E", "t", "h", "i", "c", "s", " ", "3">>],
      [kind |-> "text", text |-> <<" ", "3", " ", "E", "t", "h", "i", "c", "s">>],
      [kind |-> "text", text |-> <<>>],
      [kind |-> "none", text |-> <<>>],
      [kind |-> "raises", text |-> <<>>] }

\* a candidate test that asks for the blank right after the first digit
IsChapterItemDigitThenSpace(item) ==
    /\ item.kind = "text"
    /\ Len(item.text) > 1 /\ isdigit(<<item.text[1]>>) /\ item.text[2] = " "

\* municode_parser.py lines 57-62: the test of one tree item; an exception of
\* text_content() is passed over
IsChapterItem(item) ==
    /\ item.kind = "text"
    /\ Len(item.text) > 0 /\ isdigit(<<item.text[1]>>) /\ Contains(<<" ">>, item.text)

\* municode_parser.py lines 55-62: the next of the first twenty tree items
TreeItem ==
    /\ tpc = "walk"
    /\ tk <= Len(tree_items) /\ tk <= TreeItemLimit
    /\ all_chapters' = IF IsChapterItem(tree_items[tk])
                       THEN Append(all_chapters, Strip(tree_items[tk].text))
                       ELSE all_chapters
    /\ tk' = tk + 1
    /\ UNCHANGED <<tree_items, tpc>>
    /\ UNCHANGED exceptTree

\* municode_parser.py lines 55 and 64: the walk is over
TreeDone ==
    /\ tpc = "walk"
    /\ tk > Len(tree_items) \/ tk > TreeItemLimit
    /\ tpc' = "done"
    /\ UNCHANGED <<tree_items, all_chapters, tk>>
    /\ UNCHANGED exceptTree

NextTree ==
    \/ TreeItem
    \/ TreeDone

(***************************************************************************)
(* The first pass of GeneralCodeParser.scrape_city: the chapter links of   *)
(* the homepage are put in the order they are checked in, and cut.         *)
(***************************************************************************)
MaxChapterLinks == 16

\* generalcode_parser.py line 87: more chapters than this and the list is cut
ManyChapters == 15

\* generalcode_parser.py line 89: the length the list is cut to
PriorityCut == 10

\* generalcode_parser.py line 71
priority_keywords ==
    { <<"g", "o", "v", "e", "r", "n", "m", "e", "n", "t">>, <<"p", "e", "r", "s", "o", "n", "n", "e", "l">>, <<"a", "d", "m", "i", "n", "i", "s", "t", "r", "a", "t", "i", "o", "n">>, <<"g", "e", "n", "e", "r", "a", "l">>, <<"b", "o", "a", "r", "d">>, <<"c", "o", "m", "m", "i", "s", "s", "i", "o", "n">>, <<"p", "u", "b", "l", "i", "c", " ", "o", "f", "f", "i", "c", "e", "r">> }

\* generalcode_parser.py line 72
is_priority(text) == \E keyword \in priority_keywords : Contains(keyword, lower(text))

\* the links of a homepage: the text of the link, and whether its href names
\* a chapter of the Code
ChapterLinks ==
    { [text |-> <<"G", "e", "n", "e", "r", "a", "l", " ", "P", "r", "o", "v", "i", "s", "i", "o", "n", "s">>, code |-> TRUE],
      [text |-> <<"Z", "o", "n", "i", "n", "g">>, code |-> TRUE],
      [text |-> <<"G", "e", "n", "e", "r", "a", "l", " ", "P", "r", "o", "v", "i", "s", "i", "o", "n", "s">>, code |-> FALSE] }

\* generalcode_parser.py lines 69-83: the chapter of a link, numbered by its
\* place among the chapters, joins the candidates
AddChapter(chapters, text) ==
    LET chapter == [title |-> text, url |-> Len(chapters) + 1]
    IN IF is_priority(text) THEN <<chapter>> \o chapters ELSE Append(chapters, chapter)

\* a cut that is made whenever more than ten chapters were found
LimitChaptersOverTen(chapters) ==
    IF Len(chapters) > PriorityCut THEN SubSeq(chapters, 1, PriorityCut) ELSE chapters

\* generalcode_parser.py lines 87-91
LimitChapters(chapters) ==
    IF Len(chapters) > ManyChapters THEN SubSeq(chapters, 1, PriorityCut) ELSE chapters

\* generalcode_parser.py lines 64-83: the next chapter link of the homepage
PassLink ==
    /\ gpc = "links"
    /\ Len(potential_chapters) < MaxChapterLinks
    /\ \E link \in ChapterLinks :
          potential_chapters' = IF link.code THEN AddChapter(potential_chapters, link.text)
                                ELSE potential_chapters
    /\ UNCHANGED <<gFound, gpc>>
    /\ UNCHANGED exceptPass

\* generalcode_parser.py lines 86-94: there is no further link; the list is
\* cut and the check of the chapters begins
PassCut ==
    /\ gpc = "links"
    /\ gFound' = Len(potential_chapters)
    /\ potential_chapters' = LimitChapters(potential_chapters)
    /\ gpc' = "checking"
    /\ UNCHANGED exceptPass

NextPass ==
    \/ PassLink
    \/ PassCut

(***************************************************************************)
(* Specifications.                                                         *)
(***************************************************************************)
MatchIdle ==
    /\ mText = <<>> /\ mRes = <<>> /\ mBase = <<>> /\ mEdits = 0 /\ mpc = "idle"

CacheIdle ==
    /\ cFile = [exists |-> FALSE, text |-> <<>>] /\ cStored = <<>>
    /\ cLinks = <<>> /\ cCalls = 0 /\ cForce = FALSE /\ cRun = 0 /\ cpc = "idle"

FindIdle ==
    /\ heading = [link |-> FALSE, text |-> <<>>] /\ outcome = "none" /\ walked = <<>>
    /\ content_parts = <<>> /\ ethics_sections = <<>> /\ nHead = 0 /\ hpc = "idle"

TreeIdle == tree_items = <<>> /\ all_chapters = <<>> /\ tk = 1 /\ tpc = "idle"

\* the parts added after the first four are idle
PassIdle == potential_chapters = <<>> /\ gFound = 0 /\ gpc = "idle"

ScrapeIdle ==
    /\ main_content = [found |-> FALSE, nodes |-> <<>>] /\ content_elements = <<>>
    /\ section_data = [kind |-> "Unset"]
    /\ spc = "idle"

RetryIdle ==
    /\ max_retries = 0 /\ delay = 0 /\ attempt = 0 /\ invoked = <<>> /\ waits = <<>>
    /\ last_exception = [type |-> "None", of |-> 0] /\ rOut = [kind |-> "Unset"]
    /\ rpc = "idle"

LateIdle == ScrapeIdle /\ RetryIdle

RestIdle == TreeIdle /\ PassIdle /\ LateIdle

PureIdle == MatchIdle /\ CacheIdle /\ FindIdle /\ RestIdle

FmtIdle ==
    /\ fRaw = <<>> /\ fLines = <<>> /\ fi = 1 /\ fOut = <<>> /\ fpc = "idle"

RunIdle ==
    /\ links = <<>> /\ env = [lxml |-> TRUE, app |-> "main"] /\ i = 0 /\ pc = "idle"
    /\ ret = NoRet /\ result = NoResult
    /\ tracker = [total |-> 0, completed |-> 0, successful |-> 0, failed |-> 0,
                  with_ethics |-> 0, without_ethics |-> 0]
    /\ processed = <<>>
    /\ sess = ClosedSession /\ gcBrowser = 0
    /\ net = [fetched |-> FALSE, waited |-> 0]
    /\ intr = [raised |-> FALSE, at |-> "none", swallowed |-> FALSE]
    /\ loc = NoLoc

\* main.py lines 22-26 and 144, main_360.py lines 39-49 and 224, utils.py lines
\* 88-94, generalcode_parser.py lines 17-19: the state after construction of
\* either scraper
Init ==
    /\ env \in [lxml : BOOLEAN, app : {"main", "main_360"}]
    /\ links \in SeqsUpTo(IF env.app = "main" THEN TargetKinds ELSE E360Kinds, MaxTargets)
    /\ i = 0
    /\ pc = IF env.app = "main" THEN "run" ELSE "e_run"
    /\ ret = NoRet /\ result = NoResult
    /\ tracker = IF env.app = "main"
                 THEN [total |-> 0, completed |-> 0, successful |-> 0, failed |-> 0,
                       with_ethics |-> 0, without_ethics |-> 0]
                 ELSE [total_cities |-> 0, processed |-> 0, ethics_found |-> 0,
                       errors |-> 0, cloudflare_blocks |-> 0]
    /\ processed = <<>>
    /\ sess = ClosedSession /\ gcBrowser = 0
    /\ net = [fetched |-> FALSE, waited |-> 0]
    /\ intr = [raised |-> FALSE, at |-> "none", swallowed |-> FALSE]
    /\ loc = NoLoc
    /\ FmtIdle
    /\ PureIdle

Next ==
    \/ RunStart
    \/ LoopNext
    \/ RunFinish
    \/ ProcessCity
    \/ FactoryDispatch
    \/ FactoryReturn
    \/ ProcessResult
    \/ DetOpen
    \/ DetGoto
    \/ DetParse
    \/ MlEnter
    \/ MlOpen
    \/ MlGoto
    \/ MlParse
    \/ McoEnter
    \/ FwpOpen
    \/ FwpGoto
    \/ FwpItems
    \/ FwpClick
    \/ FwpFinish
    \/ FwpDirect
    \/ McoFind
    \/ GcOpen
    \/ GcHome
    \/ GcFilter
    \/ GcCheck
    \/ GcChecked
    \/ GcScrape
    \/ GcSection
    \/ GcFinish
    \/ E360RunStart
    \/ E360LoopNext
    \/ E360RunFinish
    \/ E360Open
    \/ E360Home
    \/ E360Toc
    \/ E360Section
    \/ E360Finish
    \/ E360ProcessResult
    \/ InterruptPropagates
    \/ InterruptSwallowed

Spec == Init /\ [][Next]_vars

\* pdf_generator.py line 29: format_section_content is called with a raw text
InitFmt ==
    /\ RunIdle
    /\ fRaw \in RawTexts
    /\ fLines = <<>> /\ fi = 1 /\ fOut = <<>> /\ fpc = "start"
    /\ PureIdle

SpecFmt == InitFmt /\ [][NextFmt]_vars

\* format_section_content is called with a short text of lines that are, or
\* nearly are, terms and markers
InitFmtNear ==
    /\ RunIdle
    /\ fRaw \in NearTexts
    /\ fLines = <<>> /\ fi = 1 /\ fOut = <<>> /\ fpc = "start"
    /\ PureIdle

SpecFmtNear == InitFmtNear /\ [][NextFmt]_vars

\* the matchers are called with a text assembled from the fragments
InitMatch ==
    /\ RunIdle /\ FmtIdle /\ CacheIdle /\ FindIdle /\ RestIdle
    /\ mText \in MatchTexts
    /\ mRes = <<>> /\ mBase = <<>> /\ mEdits = 0 /\ mpc = "start"

SpecMatch == InitMatch /\ [][NextMatch]_vars

\* the loader is called for the first time: the cache file is absent or was
\* written from some list by an earlier collection
InitCache ==
    /\ RunIdle /\ FmtIdle /\ MatchIdle /\ FindIdle /\ RestIdle
    /\ cStored \in CachedLists
    /\ cFile \in {[exists |-> FALSE, text |-> <<>>], [exists |-> TRUE, text |-> json_dump(cStored)]}
    /\ ~cFile.exists => cStored = <<>>
    /\ cLinks = <<>> /\ cCalls = 0
    /\ cForce \in BOOLEAN
    /\ cRun = 1 /\ cpc = "load"

SpecCache == InitCache /\ [][NextCache]_vars

\* find_ethics_sections is called with the parsed page of a target
InitFind ==
    /\ RunIdle /\ FmtIdle /\ MatchIdle /\ CacheIdle /\ RestIdle
    /\ heading = [link |-> FALSE, text |-> <<>>] /\ outcome = "none" /\ walked = <<>>
    /\ content_parts = <<>> /\ ethics_sections = <<>> /\ nHead = 0 /\ hpc = "enter"

SpecFind == InitFind /\ [][NextFind]_vars

\* municode_parser.py line 52: the tree items of the page are located
InitTree ==
    /\ RunIdle /\ FmtIdle /\ MatchIdle /\ CacheIdle /\ FindIdle /\ PassIdle /\ LateIdle
    /\ tree_items \in SeqsUpTo(TreeItems, MaxItems)
    /\ all_chapters = <<>> /\ tk = 1 /\ tpc = "walk"

SpecTree == InitTree /\ [][NextTree]_vars

\* generalcode_parser.py lines 61-64: the homepage is parsed, no candidate yet
InitPass ==
    /\ RunIdle /\ FmtIdle /\ MatchIdle /\ CacheIdle /\ FindIdle /\ TreeIdle /\ LateIdle
    /\ potential_chapters = <<>> /\ gFound = 0 /\ gpc = "links"

SpecPass == InitPass /\ [][NextPass]_vars

(***************************************************************************)
(* Ecode360Parser._scrape_section (ecode360_parser.py lines 138-229): the  *)
(* content of one section page is collected by rules tried in turn.  The   *)
(* container is a sequence of nodes; a node has a tag, a flag saying       *)
(* whether its class holds 'contentText' or 'section', the length of its   *)
(* stripped text, and the number of times it stands in a row.              *)
(***************************************************************************)
MaxNodes == 2

\* ecode360_parser.py lines 183, 196 and 204: len(text) > 20
ContentTextMin == 20
\* ecode360_parser.py line 189: len(text) > 5
HeadingTextMin == 5
\* ecode360_parser.py line 205: paragraphs[:100]
FragmentLimit == 100

NodeLens == {0, HeadingTextMin, HeadingTextMin + 1, ContentTextMin, ContentTextMin + 1}

\* the nodes a section page may hold under its container
Nodes ==
    { [tag |-> t, classed |-> c, len |-> l, times |-> 1] :
         t \in {"p", "div"}, c \in BOOLEAN, l \in NodeLens }
    \cup { [tag |-> "h2", classed |-> FALSE, len |-> l, times |-> 1] : l \in NodeLens }
    \cup { [tag |-> "span", classed |-> FALSE, len |-> l, times |-> n] :
              l \in {ContentTextMin, ContentTextMin + 1},
              n \in {1, FragmentLimit, FragmentLimit + 1} }

\* the descendants of the container in document order
RECURSIVE Descendants(_)
Descendants(c) ==
    IF c = <<>> THEN <<>>
    ELSE [k \in 1..Head(c).times |-> [tag |-> Head(c).tag, classed |-> Head(c).classed,
                                       len |-> Head(c).len]]
         \o Descendants(Tail(c))

\* the python slice s[:n]
Slice(s, n) == SubSeq(s, 1, IF Len(s) < n THEN Len(s) ELSE n)

\* the dict appended to content_elements for a node
Element(type, node) == [type |-> type, tag |-> node.tag, len |-> node.len]
Elements(type, nodes) == [k \in 1..Len(nodes) |-> Element(type, nodes[k])]

\* ecode360_parser.py lines 181-184: p and div nodes whose class matches, with
\* more than 20 characters
ClassedElements(c) ==
    Elements("paragraph",
             SelectSeq(Descendants(c),
                       LAMBDA n : n.tag \in {"p", "div"} /\ n.classed /\ n.len > ContentTextMin))

\* ecode360_parser.py lines 187-190: headings with more than 5 characters
HeadingElements(c) ==
    Elements("heading",
             SelectSeq(Descendants(c), LAMBDA n : n.tag = "h2" /\ n.len > HeadingTextMin))

\* ecode360_parser.py lines 194-197: every p node with more than 20 characters
ParagraphElements(c) ==
    Elements("paragraph",
             SelectSeq(Descendants(c), LAMBDA n : n.tag = "p" /\ n.len > ContentTextMin))

\* the pieces of the container's text that stand between blank lines and
\* have more than 20 characters (lines 201-204)
paragraphs(c) == SelectSeq(Descendants(c), LAMBDA n : n.len > ContentTextMin)

\* every fragment is used, however many there are
FullTextElementsUncut(c) == Elements("paragraph", paragraphs(c))

\* ecode360_parser.py line 205: the first 100 fragments are used
FullTextElements(c) == Elements("paragraph", Slice(paragraphs(c), FragmentLimit))

\* ecode360_parser.py lines 149-168 and 227-229: the page is loaded and
\* parsed; whatever is raised there makes the call return None
ScrapeGoto ==
    /\ spc = "goto"
    /\ \E ok \in BOOLEAN :
          IF ok THEN spc' = "classed" /\ UNCHANGED section_data
                ELSE spc' = "done" /\ section_data' = [kind |-> "None"]
    /\ UNCHANGED <<main_content, content_elements>>
    /\ UNCHANGED exceptScrape

\* ecode360_parser.py lines 176-184: without container nothing is collected,
\* otherwise the nodes that match the class rule are
ScrapeClassed ==
    /\ spc = "classed"
    /\ IF ~main_content.found
       THEN spc' = "return" /\ UNCHANGED content_elements
       ELSE spc' = "headings" /\ content_elements' = ClassedElements(main_content.nodes)
    /\ UNCHANGED <<main_content, section_data>>
    /\ UNCHANGED exceptScrape

\* ecode360_parser.py lines 187-190: the headings are added
ScrapeHeadings ==
    /\ spc = "headings"
    /\ content_elements' = content_elements \o HeadingElements(main_content.nodes)
    /\ spc' = "paragraphs"
    /\ UNCHANGED <<main_content, section_data>>
    /\ UNCHANGED exceptScrape

\* ecode360_parser.py lines 193-197: "if still nothing, get all paragraphs"
ScrapeParagraphs ==
    /\ spc = "paragraphs"
    /\ content_elements' = IF content_elements = <<>>
                           THEN ParagraphElements(main_content.nodes) ELSE content_elements
    /\ spc' = "fulltext"
    /\ UNCHANGED <<main_content, section_data>>
    /\ UNCHANGED exceptScrape

\* ecode360_parser.py lines 200-205: "last resort: get all text"
ScrapeFullText ==
    /\ spc = "fulltext"
    /\ content_elements' = IF content_elements = <<>>
                           THEN FullTextElements(main_content.nodes) ELSE content_elements
    /\ spc' = "return"
    /\ UNCHANGED <<main_content, section_data>>
    /\ UNCHANGED exceptScrape

\* ecode360_parser.py lines 207-225: the record when something was collected,
\* None otherwise
ScrapeReturn ==
    /\ spc = "return"
    /\ section_data' = IF content_elements # <<>>
                       THEN [kind |-> "record", content |-> content_elements]
                       ELSE [kind |-> "None"]
    /\ spc' = "done"
    /\ UNCHANGED <<main_content, content_elements>>
    /\ UNCHANGED exceptScrape

NextScrape ==
    \/ ScrapeGoto \/ ScrapeClassed \/ ScrapeHeadings
    \/ ScrapeParagraphs \/ ScrapeFullText \/ ScrapeReturn

\* ecode360_parser.py line 138: the call of _scrape_section for one page
InitScrape ==
    /\ RunIdle /\ FmtIdle /\ MatchIdle /\ CacheIdle /\ FindIdle /\ TreeIdle /\ PassIdle
    /\ RetryIdle
    /\ main_content \in {[found |-> FALSE, nodes |-> <<>>]}
                        \cup { [found |-> TRUE, nodes |-> c] : c \in SeqsUpTo(Nodes, MaxNodes) }
    /\ content_elements = <<>> /\ section_data = [kind |-> "Unset"] /\ spc = "goto"

SpecScrape == InitScrape /\ [][NextScrape]_vars

(***************************************************************************)
(* retry_on_failure (utils.py lines 28-51): the wrapper calls func until   *)
(* it returns, at most max_retries times.  An invocation returns a value,  *)
(* raises an Exception of some type, or raises something that is no        *)
(* Exception (KeyboardInterrupt), which no clause of the wrapper catches.  *)
(***************************************************************************)
MaxAttempts == 3

Delays == {1, 2}

\* what one invocation of func may do
Outcomes ==
    [kind : {"returns"}, type : {"value"}]
    \cup [kind : {"raises"}, type : {"ValueError", "OSError", "KeyboardInterrupt"}]

\* the built-in exceptions that derive from Exception
IsException(type) == type \in {"ValueError", "OSError", "TypeError"}

\* a wait after every failed attempt, the last one too
retries_left_always(a, n) == TRUE

\* utils.py line 40: attempt < max_retries - 1
retries_left(a, n) == a < n - 1

\* utils.py line 41: delay * (attempt + 1)
wait_time(d, a) == d * (a + 1)

\* utils.py line 35: the for loop takes the next attempt or is exhausted
RetryLoop ==
    /\ rpc = "loop"
    /\ rpc' = IF attempt < max_retries THEN "call" ELSE "raise"
    /\ UNCHANGED <<max_retries, delay, attempt, invoked, waits, last_exception, rOut>>
    /\ UNCHANGED exceptRetry

\* utils.py lines 36-38: func is invoked; its value is returned, its
\* Exception is caught, anything else it raises leaves the wrapper
RetryCall ==
    /\ rpc = "call"
    /\ \E o \in Outcomes :
          /\ invoked' = Append(invoked, o)
          /\ IF o.kind = "returns"
             THEN /\ rOut' = [kind |-> "return", of |-> Len(invoked) + 1]
                  /\ rpc' = "done"
             ELSE IF IsException(o.type)
                  THEN /\ rpc' = "except"
                       /\ UNCHANGED rOut
                  ELSE /\ rOut' = [kind |-> "raise", type |-> o.type, of |-> Len(invoked) + 1]
                       /\ rpc' = "done"
    /\ UNCHANGED <<max_retries, delay, attempt, waits, last_exception>>
    /\ UNCHANGED exceptRetry

\* utils.py lines 38-46: the exception is kept; the wrapper sleeps when
\* attempts are left
RetryExcept ==
    /\ rpc = "except"
    /\ last_exception' = [type |-> invoked[Len(invoked)].type, of |-> Len(invoked)]
    /\ waits' = IF retries_left(attempt, max_retries)
                THEN Append(waits, [after |-> Len(invoked), time |-> wait_time(delay, attempt)])
                ELSE waits
    /\ attempt' = attempt + 1
    /\ rpc' = "loop"
    /\ UNCHANGED <<max_retries, delay, invoked, rOut>>
    /\ UNCHANGED exceptRetry

\* utils.py line 48: raise last_exception; raising None is a TypeError
RetryRaise ==
    /\ rpc = "raise"
    /\ rOut' = IF last_exception.type = "None"
               THEN [kind |-> "raise", type |-> "TypeError", of |-> 0]
               ELSE [kind |-> "raise", type |-> last_exception.type, of |-> last_exception.of]
    /\ rpc' = "done"
    /\ UNCHANGED <<max_retries, delay, attempt, invoked, waits, last_exception>>
    /\ UNCHANGED exceptRetry

NextRetry == RetryLoop \/ RetryCall \/ RetryExcept \/ RetryRaise

\* utils.py lines 28-33: the wrapper is entered
InitRetry ==
    /\ RunIdle /\ FmtIdle /\ MatchIdle /\ CacheIdle /\ FindIdle /\ TreeIdle /\ PassIdle
    /\ ScrapeIdle
    /\ max_retries \in 0..MaxAttempts /\ delay \in Delays
    /\ attempt = 0 /\ invoked = <<>> /\ waits = <<>>
    /\ last_exception = [type |-> "None", of |-> 0] /\ rOut = [kind |-> "Unset"]
    /\ rpc = "loop"

SpecRetry == InitRetry /\ [][NextRetry]_vars

(***************************************************************************)
(* Properties.                                                             *)
(***************************************************************************)
Failure == [success |-> FALSE, sections |-> PyList(<<>>)]
EmptySuccess == [success |-> TRUE, sections |-> PyList(<<>>)]

\* positions between "with sync_playwright() as p" and the end of its block
InsideWith ==
    { "det_goto", "det_parse", "ml_goto", "ml_parse", "fwp_goto", "fwp_items",
      "fwp_click", "fwp_direct", "gc_home", "gc_filter", "gc_check", "gc_scrape",
      "gc_section", "e_home", "e_toc", "e_section" }

\* the steps that perform a network-bound fetch (a navigation or a click that loads)
FetchStep ==
    \/ DetGoto
    \/ MlGoto
    \/ FwpGoto
    \/ \E o \in {"plain", "keyword", "real"} : FwpClickAs(o)
    \/ GcHome
    \/ GcCheck
    \/ GcScrape
    \/ GcSection
    \/ E360Home
    \/ E360Section

\* C1: when the page fetch of a registered platform fails, ParserFactory.scrape_city
\* returns success = false and no section record.
C1_FetchFailureIsFailure ==
    (pc = "pc_result" /\ ret.why = "fetch_failed")
        => (result.success = FALSE /\ result.sections.items = <<>>)

\* C2: an exception raised inside a strategy's scrape_city is converted by
\* ParserFactory.scrape_city to (false, []), never to a success result.
C2_StrategyExceptionBecomesFailure ==
    [][(FactoryReturn /\ ret.val.kind = "raise") => result' = Failure]_vars

\* C3: for a target whose platform is not in the registry (or that has no
\* platform key) ParserFactory.scrape_city returns exactly (true, []) and no
\* strategy is entered and nothing is raised.
C3_UnknownPlatformSucceeds ==
    (env.app = "main" /\ i >= 1 /\ cur.platform \notin Registry)
        => /\ pc \in {"process_city", "factory", "pc_result", "loop", "done",
                      "fatal", "interrupted"}
           /\ pc = "fatal" => cur.url = Missing
           /\ pc = "interrupted" => intr.at \in {"process_city", "factory", "pc_result", "loop"}
           /\ pc = "pc_result" => result = EmptySuccess

C3_Witness ==
    /\ pc = "pc_result" /\ cur.platform = Missing
    /\ result = EmptySuccess

\* C4: when the page is fetched and no section matches, ParserFactory.scrape_city
\* returns exactly (true, []) for every registered platform, never a None
\* sections value.
C4_NoMatchIsEmptyList ==
    (pc = "pc_result" /\ ret.why = "no_match") => result = EmptySuccess

\* C5: MunicipalCodeScraper.run processes every target of the list exactly once
\* and in list order; unless interrupted from outside, no target (malformed
\* or not) stops the loop before the remaining targets are processed.
C5_EveryTargetProcessed ==
    (env.app = "main" /\ pc \in {"done", "fatal"})
        => processed = [k \in 1..Len(links) |-> k]

\* C6: an operator interrupt takes effect only at a target boundary: the
\* current target has completed or failed when processing stops, and the
\* interrupt is never swallowed.
C6_InterruptAtTargetBoundary ==
    /\ pc = "interrupted" => Len(processed) = i
    /\ ~intr.swallowed

C8_DelayBetweenFetches ==
    [][(FetchStep /\ net.fetched) => net.waited >= REQUEST_DELAY]_vars

nonblank(ln) == ln # <<>>

RECURSIVE BlockTexts(_)
BlockTexts(out) == IF out = <<>> THEN <<>> ELSE Head(out).parts \o BlockTexts(Tail(out))

\* C9: format_section_content is total and bounded: for every raw text, as
\* long as the loop runs some rule applies to the current position (nothing
\* raises), every iteration moves the line index forward and the index never
\* passes the end (so the loop terminates), and the number of emitted blocks
\* never exceeds the number of lines consumed so far, hence the number of
\* input lines.
C9_ClassifierTotalBounded ==
    /\ [](/\ Len(fOut) <= Len(fLines)
          /\ fpc = "loop" => /\ Len(fOut) <= fi - 1
                             /\ fi <= Len(fLines) + 1
                             /\ ENABLED NextFmt)
    /\ [][fpc = "loop" => (fi' > fi \/ fpc' = "done")]_vars

C9_Witness ==
    /\ fpc = "done"
    /\ Len(fLines) >= 3
    /\ Len(fOut) = Len(fLines)

\* C10: format_section_content omits and reorders nothing: the texts of the
\* emitted blocks, read in order, are the non-blank input lines in order.
C10_NothingOmittedOrReordered ==
    fpc = "done" => JoinSp(BlockTexts(fOut)) = JoinSp(SelectSeq(fLines, nonblank))

C10_Witness ==
    /\ fpc = "done"
    /\ Len(fOut) = 1
    /\ fOut[1].type = "li"
    /\ Len(SelectSeq(fLines, nonblank)) = 3

\* C12: a detection-only strategy whose parsed page text holds an ethics term
\* returns exactly one section record, with a non-empty body that names the
\* target's url, whether or not a link matches; without a term in the page
\* text it returns no record.
C12_DetectionYieldsOneRecord ==
    [][(DetParse /\ env.lxml) =>
          IF loc.pageHit
          THEN /\ ret'.val.kind = "dict"
               /\ Len(ret'.val.sections) = 1
               /\ ret'.val.sections[1].content # <<>>
               /\ \E k \in 1..Len(ret'.val.sections[1].content) :
                     ret'.val.sections[1].content[k] = cur.url
          ELSE ret'.val = RetNone]_vars

C12_Witness ==
    /\ pc = "factory_ret"
    /\ cur.platform = "Amlegal"
    /\ ret.why = "found"
    /\ ret.val.sections[1].title = "Ethics Code Detected in TOC"

\* C13: the section records ParserFactory.scrape_city delivers for a detection
\* that asks for manual review carry requires_manual_review = true.
C13_ReviewFlagDelivered ==
    (pc = "pc_result" /\ ret.val.kind = "dict" /\ ret.val.review)
        => \A k \in 1..Len(result.sections.items) :
              /\ "requires_manual_review" \in DOMAIN result.sections.items[k]
              /\ result.sections.items[k].requires_manual_review

\* C16: for a Municipal Code Online target whose chapters were walked, a
\* chapter contributes section records only if it passed the strict check.
C16_OnlyConfirmedChaptersContribute ==
    [][(McoFind /\ env.lxml /\ loc.walked) =>
          \A k \in 1..Len(ret'.val.sections.items) :
             LET c == ret'.val.sections.items[k].title[2]
             IN c >= 1 => \E j \in 1..Len(loc.passed) : loc.passed[j].chapter = c]_vars

\* C17: when the chapters were walked, every chapter that passed the check and
\* holds ethics sections has its sections in the result of the target.
C17_AllPassingChaptersContribute ==
    [][(McoFind /\ env.lxml /\ loc.walked) =>
          \A j \in 1..Len(loc.passed) :
             loc.passed[j].kind = "real" =>
                \E k \in 1..Len(ret'.val.sections.items) :
                   ret'.val.sections.items[k].title[2] = loc.passed[j].chapter]_vars

\* two characters are the same letter in either case, or the same character
SameIgnoringCase(a, b) ==
    \/ a = b
    \/ a \in DOMAIN LowerOf /\ LowerOf[a] = b
    \/ b \in DOMAIN LowerOf /\ LowerOf[b] = a

\* a phrase occurs in a text as a case-insensitive substring
OccursIgnoringCase(term, text) ==
    \E k \in 0..(Len(text) - Len(term)) :
       \A j \in 1..Len(term) : SameIgnoringCase(text[k + j], term[j])

\* C11: every term matcher answers true exactly when some phrase of its
\* vocabulary occurs in the text as a case-insensitive substring, and its
\* answer does not change when the case of letters is changed or whitespace
\* is added or removed in front or at the end.
C11_MatchersAreCaseInsensitiveSubstring ==
    mpc = "matched" =>
        /\ \A m \in Matchers :
              mRes[m] = (\E term \in Vocabulary(m) : OccursIgnoringCase(term, mText))
        /\ mRes = mBase

C11_Witness ==
    /\ mpc = "matched"
    /\ mEdits = 1
    /\ mText = upper(mText)
    /\ mRes["ecode360"] /\ mRes["aspirational"] /\ ~mRes["Municode"]

\* C14: all strategies decide relevance against one shared vocabulary: for
\* every text their ethics matchers give the same answer.
C14_OneSharedVocabulary ==
    mpc = "matched" => \A a \in EthicsMatchers, b \in EthicsMatchers : mRes[a] = mRes[b]

\* C15: when the cache file exists and re-collection is not forced, the list
\* of the run is exactly the cached list, in its order, and the collector is
\* not invoked; otherwise the collector runs once and what it returns is
\* written to the cache, so that the next unforced call reads the same list.
C15_CacheRereadVerbatim ==
    [][/\ LoadCached => (cLinks' = cStored /\ cCalls' = cCalls)
       /\ CollectAndSave => /\ cCalls' = cCalls + 1
                            /\ cFile'.exists
                            /\ json_load(cFile'.text) = cLinks'
       /\ (LoadCached /\ cCalls >= 1) => cLinks' = cLinks]_vars

C15_Witness ==
    /\ cpc = "loaded" /\ cRun = 2 /\ cCalls = 1
    /\ Len(cLinks) = 2
    /\ cLinks[1].platform = Missing /\ cLinks[2].url = ""

\* C18: the text accumulated for one section by the sibling walk never
\* exceeds 5000 characters, whatever the siblings that follow the heading.
C18_SectionTextCapped ==
    \A k \in 1..Len(ethics_sections) :
        total_length(ethics_sections[k].content) <= SectionCharLimit

\* the sibling at which the walk is said to stop: a heading div, a docs div,
\* or a sibling of any kind whose text begins with a locator number
StopsTheRun(s) ==
    \/ s.kind = "div" /\ s.class \in {"phx-name", "phx-docs"}
    \/ StartsWithNumberOrHyphen(StripText(s.text))

\* the non-empty texts of the siblings before the first one that stops the run
RECURSIVE BodyUpToStop(_)
BodyUpToStop(ws) ==
    IF ws = <<>> \/ StopsTheRun(Head(ws)) THEN <<>>
    ELSE (IF TextLen(StripText(Head(ws).text)) > 0 THEN <<StripText(Head(ws).text)>> ELSE <<>>)
         \o BodyUpToStop(Tail(ws))

\* C19: the body of a section is exactly the non-empty texts of the siblings
\* visited after the heading's parent, in document order, up to and excluding
\* the first heading div, docs div or sibling beginning with a dotted or
\* hyphenated locator number, alike for text nodes, divs and other elements.
C19_BodyIsRunUpToStop ==
    [][(hpc = "walk" /\ hpc' = "heading")
          => ethics_sections'[Len(ethics_sections')].content = BodyUpToStop(walked')]_vars

\* a first word made of digits, hyphens and dots only, with fewer than two
\* dots and fewer than two hyphens
OnlyDigitsHyphensDots(first_word) ==
    /\ first_word # <<>>
    /\ \A k \in 1..Len(first_word) : first_word[k] \in DigitChars \cup {"-", "."}
    /\ count(first_word, ".") < 2 /\ count(first_word, "-") < 2

\* a heading with a link is taken up by this step
TakesUpHeading == hpc = "heading" /\ nHead' = nHead + 1 /\ heading'.link

\* what holds of every step whatever the first word is: a skipped heading adds
\* no section although it may hold an ethics term, a heading that is not
\* skipped and matches is walked, and the walk ends with exactly one section
\* record of that heading, with an empty body when nothing was collected
OneSectionPerKeptHeading ==
    /\ (TakesUpHeading /\ outcome' = "chapter_level") =>
          (hpc' = "heading" /\ ethics_sections' = ethics_sections)
    /\ (TakesUpHeading /\ outcome' # "chapter_level") =>
          /\ ethics_sections' = ethics_sections
          /\ hpc' = "walk" <=>
                search_for_ethics_sections("Municipal Code Online", heading'.text)
    /\ hpc = "walk" => \/ hpc' = "walk" /\ ethics_sections' = ethics_sections
                       \/ /\ hpc' = "heading"
                          /\ Len(ethics_sections') = Len(ethics_sections) + 1
                          /\ SubSeq(ethics_sections', 1, Len(ethics_sections)) = ethics_sections
                          /\ ethics_sections'[Len(ethics_sections')].title = heading.text

\* C20 as stated: a heading is skipped as chapter-level if and only if its
\* first word consists only of digits, hyphens and dots with fewer than two
\* dots and fewer than two hyphens; the skip comes before the ethics test and
\* every other matching heading gives exactly one section record.
C20_SkipIffOnlyDigitsHyphensDots ==
    [][/\ TakesUpHeading =>
             (outcome' = "chapter_level" <=> OnlyDigitsHyphensDots(FirstWord(heading'.text)))
       /\ OneSectionPerKeptHeading]_vars

\* C20 amended: a heading is skipped as chapter-level if and only if its
\* first word consists only of digits, hyphens and dots, holds at least one
\* digit, and has fewer than two dots and fewer than two hyphens; the skip
\* comes before the ethics test and every other matching heading gives
\* exactly one section record, also when its body is empty.
C20_SkipIffNumberedChapter ==
    [][/\ TakesUpHeading =>
             (outcome' = "chapter_level" <=>
                 /\ OnlyDigitsHyphensDots(FirstWord(heading'.text))
                 /\ \E k \in 1..Len(FirstWord(heading'.text)) :
                       FirstWord(heading'.text)[k] \in DigitChars)
       /\ OneSectionPerKeptHeading]_vars

C20_Witness ==
    /\ nHead = 2 /\ outcome = "chapter_level" /\ hpc = "heading"
    /\ search_for_ethics_sections("Municipal Code Online", heading.text)
    /\ Len(ethics_sections) = 1
    /\ ethics_sections[1].content = <<>>
    /\ count(FirstWord(ethics_sections[1].title), "-") = 1

\* the loop stands at a non-blank line that the fusion rule does not consume
AtUnfusedLine ==
    /\ fpc = "loop" /\ fi <= Len(fLines)
    /\ CurLine # <<>>
    /\ ~FusesWithNext

\* this step appends exactly one block of the given kind made from the current line
EmitsOne(kind) ==
    /\ Len(fOut') = Len(fOut) + 1
    /\ SubSeq(fOut', 1, Len(fOut)) = fOut
    /\ fOut'[Len(fOut')].type = kind

\* a line of upper-case letters, digits, hyphens and spaces only, of length 3 or more
OnlyCapsDigitsHyphensSpaces(s) ==
    /\ Len(s) >= 3
    /\ \A k \in 1..Len(s) : IsUpper(s[k]) \/ IsDigit(s[k]) \/ s[k] \in {" ", "-"}

\* C22 as stated: a non-blank line not consumed by the fusion rule is treated
\* as a definition term if and only if it consists solely of upper-case
\* letters, digits, hyphens and spaces and has length at least 3, whether or
\* not it also looks like a marker.
C22_TermIffCapsDigitsHyphensSpaces ==
    [][AtUnfusedLine =>
          (EmitsOne("def") <=> OnlyCapsDigitsHyphensSpaces(CurLine))]_vars

\* C22 amended: a non-blank line not consumed by the fusion rule is treated
\* as a definition term if and only if it begins with an upper-case letter,
\* consists solely of upper-case letters, digits, hyphens and spaces and has
\* length at least 3; the term becomes the first text of the block, and the
\* test comes before the marker test.
C22_TermIffLeadingCapital ==
    [][AtUnfusedLine =>
          /\ EmitsOne("def") <=>
                (IsUpper(CurLine[1]) /\ OnlyCapsDigitsHyphensSpaces(CurLine))
          /\ EmitsOne("def") => fOut'[Len(fOut')].parts[1] = CurLine]_vars

C22_Witness ==
    /\ fpc = "done"
    /\ Len(fOut) = 2
    /\ fOut[1].type = "p" /\ fOut[1].parts = <<(<<"1", "2", "A">>)>>
    /\ fOut[2].type = "def" /\ fOut[2].parts = <<(<<"A", "-", "1">>)>>

\* the length of the maximal run of lines after the current one that are
\* neither blank, nor a term, nor a marker, nor a section-symbol line
RunLength ==
    CHOOSE n \in 0..(Len(fLines) - fi) :
        /\ \A k \in 1..n : ~StopsBody(fLines[fi + k])
        /\ fi + n + 1 <= Len(fLines) => StopsBody(fLines[fi + n + 1])

\* C23: the body of a definition term or of an enumerated item is exactly the
\* space-joined maximal run of lines that follow it and precede the first
\* blank, term, marker or section-symbol line; the stopping line is not
\* consumed and is the line the next turn of the loop starts at; with an empty
\* run the block is still emitted, without a body.
C23_BodyIsMaximalRun ==
    [][(AtUnfusedLine /\ (EmitsOne("def") \/ EmitsOne("li"))) =>
          /\ fi' = fi + 1 + RunLength
          /\ Len(fOut'[Len(fOut')].parts) = (IF RunLength = 0 THEN 1 ELSE 2)
          /\ RunLength > 0 =>
                fOut'[Len(fOut')].parts[2] = JoinSp(SubSeq(fLines, fi + 1, fi + RunLength))
          /\ fi' <= Len(fLines) => StopsBody(fLines[fi'])]_vars

C23_Witness ==
    /\ fpc = "done"
    /\ Len(fLines) = 3 /\ is_marker(fLines[3]) # <<>>
    /\ Len(fOut) = 2
    /\ fOut[1].type = "def" /\ fOut[1].parts = <<fLines[1], fLines[2]>>
    /\ fOut[2].type = "li" /\ Len(fOut[2].parts) = 1

\* one upper-case letter, or one to three digits and at most one upper-case
\* letter after them, then one period and nothing else
LooksLikeMarker(s) ==
    \/ Len(s) = 2 /\ IsUpper(s[1]) /\ s[2] = "."
    \/ \E d \in 1..3, l \in 0..1 :
          /\ Len(s) = d + l + 1
          /\ \A k \in 1..d : IsDigit(s[k])
          /\ l = 1 => IsUpper(s[d + 1])
          /\ s[Len(s)] = "."

C25_SymbolFusesWithTitle ==
    [][(fpc = "loop" /\ fi <= Len(fLines) /\ is_section_symbol(CurLine)) =>
          IF fi < Len(fLines) /\ fLines[fi + 1] # <<>> /\ ~is_section_symbol(fLines[fi + 1])
          THEN /\ EmitsOne("sec-head")
               /\ fOut'[Len(fOut')].parts = <<CurLine, fLines[fi + 1]>>
               /\ fi' = fi + 2
          ELSE /\ EmitsOne("p")
               /\ fOut'[Len(fOut')].parts = <<CurLine>>
               /\ fi' = fi + 1]_vars

C25_Witness ==
    /\ fpc = "done"
    /\ Len(fLines) = 3 /\ Len(fOut) = 2
    /\ fOut[1].type = "p" /\ is_section_symbol(fOut[1].parts[1])
    /\ fOut[2].type = "sec-head" /\ fOut[2].parts = <<fLines[2], fLines[3]>>
    /\ is_marker(fLines[3]) # <<>>

\* the tree item handled by this step
WalkedItem == tree_items[tk]

\* this step takes the item as a chapter candidate
TakenAsCandidate ==
    /\ Len(all_chapters') = Len(all_chapters) + 1
    /\ SubSeq(all_chapters', 1, Len(all_chapters)) = all_chapters

\* C21 as stated: a tree item is taken as a chapter candidate if and only if
\* its text starts with a digit that is followed by a space; an item whose
\* text starts with a digit and has a space only later is not a candidate.
C21_CandidateIffDigitThenSpace ==
    [][(tpc = "walk" /\ tk' = tk + 1) =>
          (TakenAsCandidate <=>
              /\ WalkedItem.kind = "text" /\ Len(WalkedItem.text) >= 2
              /\ WalkedItem.text[1] \in DigitChars /\ WalkedItem.text[2] = " ")]_vars

\* C21 amended: a tree item is taken as a chapter candidate if and only if
\* its text starts with a digit and holds a space anywhere after it; items
\* with no text, with no space, or not starting with a digit are not
\* candidates, and a candidate is kept as its stripped text.
C21_CandidateIffDigitAndSomeSpace ==
    [][(tpc = "walk" /\ tk' = tk + 1) =>
          /\ TakenAsCandidate <=>
                /\ WalkedItem.kind = "text" /\ Len(WalkedItem.text) >= 2
                /\ WalkedItem.text[1] \in DigitChars
                /\ \E k \in 2..Len(WalkedItem.text) : WalkedItem.text[k] = " "
          /\ ~TakenAsCandidate => all_chapters' = all_chapters]_vars

C21_Witness ==
    /\ tpc = "done"
    /\ Len(tree_items) = 2
    /\ tree_items[1].text = <<"3">>
    /\ Len(all_chapters) = 1
    /\ all_chapters[1][2] # " " /\ all_chapters[1][3] = " "

\* the title holds a priority keyword, in whatever case
TitlesWithPriorityKeyword ==
    { l.text : l \in { c \in ChapterLinks :
        \E keyword \in priority_keywords :
            \E k \in 0..(Len(c.text) - Len(keyword)) :
                \A j \in 1..Len(keyword) : SameIgnoringCase(c.text[k + j], keyword[j]) } }

HoldsPriorityKeyword(title) == title \in TitlesWithPriorityKeyword

\* C26: after the first pass every chapter whose title holds a priority
\* keyword precedes every chapter whose title holds none; the list is cut to
\* its first ten entries if and only if it holds more than fifteen chapters
\* and is otherwise left complete, so at most fifteen chapters are checked.
C26_PriorityFirstAndCut ==
    /\ [](\A a, b \in 1..Len(potential_chapters) :
             (a < b /\ HoldsPriorityKeyword(potential_chapters[b].title))
                => HoldsPriorityKeyword(potential_chapters[a].title))
    /\ [](gpc = "checking" => Len(potential_chapters) <= 15)
    /\ [][gpc' = "checking" /\ gpc = "links" =>
             potential_chapters' = IF Len(potential_chapters) > 15
                                   THEN SubSeq(potential_chapters, 1, 10)
                                   ELSE potential_chapters]_vars

C26_Witness ==
    /\ gpc = "checking"
    /\ gFound = 16 /\ Len(potential_chapters) = 10
    /\ HoldsPriorityKeyword(potential_chapters[1].title)
    /\ ~HoldsPriorityKeyword(potential_chapters[10].title)

(***************************************************************************)
(* C27: the order of discovery and extraction within one target.           *)
(***************************************************************************)

\* The steps of the three strategies that extract bodies
InSecondPass == pc \in {"gc_scrape", "gc_section"}
InDrillDown == pc \in {"gc_check", "gc_scrape", "gc_section"}
InTreeWalk == pc = "fwp_click"
InAnchorScan == pc = "e_section"

\* The candidates known so far: the ethics chapters of the drill-down, the
\* chapters of the tree walk, the matching anchors of the anchor scan
Candidates ==
    CASE InDrillDown -> loc.eth
      [] InTreeWalk -> loc.n
      [] InAnchorScan -> loc.cands
      [] OTHER -> 0

\* A body extraction of the target has started
ExtractionStarted ==
    \/ InSecondPass /\ (loc.j > 1 \/ pc = "gc_section")
    \/ InTreeWalk /\ loc.k > 1
    \/ InAnchorScan /\ loc.cands > 0

\* The candidate being worked on and what is still pending of it
Turn == IF InSecondPass THEN loc.j ELSE loc.k
Pending == IF InSecondPass THEN loc.m ELSE 0

\* The candidates are taken one after the other: the turn moves by one, and
\* only when nothing of the candidate before is pending; the drill-down
\* navigates to a chapter only when no section of another one is pending
OneAtATime ==
    /\ (\/ InSecondPass /\ InSecondPass'
        \/ InTreeWalk /\ InTreeWalk'
        \/ InAnchorScan /\ InAnchorScan')
       /\ Turn' # Turn
       => Turn' = Turn + 1 /\ Pending' = 0
    /\ pc = "gc_scrape" /\ net' # net => loc.m = 0

NoClassedChild ==
    \A k \in 1..Len(main_content.nodes) :
       main_content.nodes[k].tag \in {"p", "div"} => ~main_content.nodes[k].classed

\* every p node with more than 20 characters has its element in els
HoldsEveryParagraph(els) ==
    \A k \in 1..Len(ParagraphElements(main_content.nodes)) :
       \E j \in 1..Len(els) : els[j] = ParagraphElements(main_content.nodes)[k]

\* the full text is used only after the rules before it gave nothing, and
\* then at most 100 fragments of it
FullTextLast ==
    spc = "fulltext" /\ content_elements' # content_elements
    => /\ content_elements = <<>>
       /\ ParagraphElements(main_content.nodes) = <<>>
       /\ Len(content_elements') <= FragmentLimit
       /\ content_elements' = Elements("paragraph", Slice(paragraphs(main_content.nodes), FragmentLimit))

\* a record is returned exactly when an element was collected
RecordIffCollected ==
    /\ spc = "return" => (section_data'.kind = "record" <=> content_elements # <<>>)
    /\ spc = "goto" /\ spc' = "done" => section_data'.kind = "None"

\* C28 as stated: whenever no child of the container matches the content-class
\* rule, every paragraph node with more than 20 characters is collected; the
\* full text is split and used only when that also yields nothing, with at
\* most 100 fragments; a record is returned iff something was collected
C28_ParagraphsWhenNoClassedChild ==
    [][/\ spc = "paragraphs" /\ NoClassedChild => HoldsEveryParagraph(content_elements')
       /\ FullTextLast
       /\ RecordIffCollected]_vars

\* C28 amended: whenever no child of the container matches the content-class
\* rule and the container has no heading of more than 5 characters, every
\* paragraph node with more than 20 characters is collected (and nothing
\* else); the full text is split and used only when that also yields nothing,
\* with at most 100 fragments; a record is returned iff something was
\* collected
C28_ParagraphsWhenNothingCollected ==
    [][/\ spc = "paragraphs" /\ NoClassedChild /\ HeadingElements(main_content.nodes) = <<>>
          => content_elements' = ParagraphElements(main_content.nodes)
       /\ FullTextLast
       /\ RecordIffCollected]_vars

\* a container without classed child and without heading whose paragraphs
\* were collected by the second rule and returned
C28_Witness ==
    /\ spc = "done"
    /\ main_content.found /\ NoClassedChild /\ HeadingElements(main_content.nodes) = <<>>
    /\ section_data.kind = "record"
    /\ section_data.content = ParagraphElements(main_content.nodes)

(***************************************************************************)
(* C29: the counters of ProgressTracker in the run of main.py.             *)
(***************************************************************************)

\* process_city returns in this step
ProcessCityReturns == pc = "pc_result" /\ pc' = "loop"

\* the result being counted holds sections
HoldsSections == result.success = TRUE /\ ~result.sections.isNone /\ result.sections.items # <<>>

\* C29: completed = successful + failed and successful = with_ethics +
\* without_ethics at all times; update is called exactly once when
\* process_city returns and nowhere else, so completed is the number of
\* targets processed and never exceeds total; a target whose sections were
\* found but whose PDF generation failed is counted as failed, not as
\* with_ethics
C29_TrackerCounts ==
    /\ [](env.app = "main"
          => /\ tracker.completed = tracker.successful + tracker.failed
             /\ tracker.successful = tracker.with_ethics + tracker.without_ethics
             /\ tracker.completed = Len(processed)
             /\ pc # "run" => tracker.completed <= tracker.total
             /\ pc = "pc_result" /\ HoldsSections
                => /\ CountPdf(tracker, None).failed = tracker.failed + 1
                   /\ CountPdf(tracker, None).with_ethics = tracker.with_ethics
                   /\ CountPdf(tracker, None).successful = tracker.successful)
    /\ [][env.app = "main"
          => /\ ProcessCityReturns
                => \E success \in BOOLEAN, has_ethics \in BOOLEAN :
                      tracker' = update(tracker, success, has_ethics)
             /\ ProcessCityReturns /\ HoldsSections
                => tracker'.without_ethics = tracker.without_ethics
             /\ ~ProcessCityReturns /\ pc # "run" => tracker' = tracker]_vars

\* a second target has been counted as failed because its PDF could not be
\* generated, after a first one was counted with ethics code
C29_Witness ==
    /\ env.app = "main" /\ pc = "loop" /\ HoldsSections
    /\ tracker.completed = 2 /\ tracker.failed = 1 /\ tracker.with_ethics = 1
    /\ tracker.total = 2

(***************************************************************************)
(* C30: retry_on_failure.                                                  *)
(***************************************************************************)

\* every invocation so far raised an Exception
AllRaised == \A k \in 1..Len(invoked) : invoked[k].kind = "raises" /\ IsException(invoked[k].type)

\* C30: for max_retries = n >= 1 func is invoked at most n times; the first
\* invocation that returns ends the retries and its value is returned; when
\* all n invocations raise, the exception of the n-th is raised; a wait of
\* delay * attempt number follows each failed attempt but the last, and none
\* follows the last attempt
C30_RetryAtMostNTimes ==
    max_retries >= 1
    => /\ Len(invoked) <= max_retries
       /\ \A k \in 1..Len(invoked) - 1 : invoked[k].kind = "raises" /\ IsException(invoked[k].type)
       /\ \A j \in 1..Len(waits) :
             waits[j].after = j /\ waits[j].time = delay * j /\ j < max_retries
       /\ rpc = "done"
          => /\ Len(invoked) >= 1
             /\ Len(waits) = Len(invoked) - 1
             /\ invoked[Len(invoked)].kind = "returns"
                => rOut = [kind |-> "return", of |-> Len(invoked)]
             /\ Len(invoked) = max_retries /\ invoked[max_retries].kind = "raises"
                => rOut = [kind |-> "raise", type |-> invoked[max_retries].type,
                           of |-> max_retries]
             /\ AllRaised
                => /\ Len(invoked) = max_retries
                   /\ rOut = [kind |-> "raise", type |-> invoked[max_retries].type,
                              of |-> max_retries]

\* three attempts that all raised, the first and the last with different
\* exceptions, two waits in between, and the last exception raised
C30_Witness ==
    /\ rpc = "done" /\ max_retries = 3 /\ Len(invoked) = 3 /\ AllRaised
    /\ invoked[1].type # invoked[3].type
    /\ rOut.kind = "raise" /\ rOut.of = 3
    /\ Len(waits) = 2

====
